---- MODULE Spec2Model ----
(***************************************************************************)
(* TriangleMesh (trianglemesh.cpp) and the part of OpenGLView that drives  *)
(* it, as a state machine.                                                 *)
(*                                                                         *)
(* Numbers.  The code computes in IEEE float.  The model computes in exact *)
(* extended rationals [n, d]: d > 0 is the finite value n/d in lowest      *)
(* terms, [1,0] is +inf, [-1,0] is -inf and [0,0] is NaN, so that x/0,     *)
(* inf*0 and comparisons with NaN behave as the hardware does.  Rounding   *)
(* and overflow to infinity of finite products are not modelled.           *)
(*                                                                         *)
(* GPU.  A handle is 0 or the name of a driver object; of a name the model *)
(* keeps only that it is not 0.  The driver records the calls an operation *)
(* issued and whether some object is left that no handle names any more.   *)
(* Buffer contents are abstracted to whether the upload was stored.        *)
(***************************************************************************)
EXTENDS Integers, Sequences, FiniteSets, TLC

(* ----------------------------------------------------------------------- *)
(* Bounds of the model                                                     *)
(* ----------------------------------------------------------------------- *)

\* how many translateToCenter / scaleToLength calls follow one clear()
MaxTransforms == 1
\* how many generateSphere calls may pile up in tangents, which clear() keeps
MaxSphereCalls == 1
\* the largest h and w of generateTerrain(h, w, iterations)
MaxGrid == 4
\* the largest grid size the view is asked for
MaxGridSize == 3
\* the most shader programs the view holds
MaxPrograms == 3
\* the most events a view handles after initializeGL, frames not counted
MaxSlots == 3
(* ----------------------------------------------------------------------- *)
(* Loops                                                                   *)
(* ----------------------------------------------------------------------- *)

\* A loop over the elements lo..hi of a sequence is written as the loop over
\* lo..mid followed by the loop over mid+1..hi, which visits the elements in
\* the order of the source and keeps the evaluation shallow. An operator's
\* arguments are evaluated when first used: Evaluated(v), which is TRUE, makes
\* the state after the first half a value before the second half starts.
Evaluated(v) == v = v

Mid(lo, hi) == (lo + hi) \div 2

(* ----------------------------------------------------------------------- *)
(* Extended rationals                                                      *)
(* ----------------------------------------------------------------------- *)

Abs(i) == IF i < 0 THEN -i ELSE i

Sgn(i) == IF i < 0 THEN -1 ELSE IF i > 0 THEN 1 ELSE 0

RECURSIVE GCD(_, _)
GCD(a, b) == IF b = 0 THEN a ELSE GCD(b, a % b)

\* n/d for any integers n, d, in canonical form
Q(n, d) ==
    IF d = 0 THEN [n |-> Sgn(n), d |-> 0]
    ELSE LET g == GCD(Abs(n), Abs(d))
             s == IF d < 0 THEN -1 ELSE 1
         IN  [n |-> (s * n) \div g, d |-> Abs(d) \div g]

R(i) == [n |-> i, d |-> 1]

NaN == [n |-> 0, d |-> 0]
PosInf == [n |-> 1, d |-> 0]
NegInf == [n |-> -1, d |-> 0]

IsNaN(x) == x.n = 0 /\ x.d = 0
IsInf(x) == x.n # 0 /\ x.d = 0
IsFinite(x) == x.d # 0

RNeg(x) == [n |-> -x.n, d |-> x.d]

RAdd(x, y) ==
    IF IsNaN(x) \/ IsNaN(y) THEN NaN
    ELSE IF IsInf(x) THEN (IF IsInf(y) /\ y.n # x.n THEN NaN ELSE x)
    ELSE IF IsInf(y) THEN y
    ELSE IF x.d = 1 /\ y.d = 1 THEN [n |-> x.n + y.n, d |-> 1]
    ELSE LET g == GCD(x.d, y.d)
         IN  Q(x.n * (y.d \div g) + y.n * (x.d \div g), (x.d \div g) * y.d)

RSub(x, y) == RAdd(x, RNeg(y))

RMul(x, y) ==
    IF x.d = 0 \/ y.d = 0 THEN Q(x.n * y.n, 0)
    ELSE IF x.d = 1 /\ y.d = 1 THEN [n |-> x.n * y.n, d |-> 1]
    ELSE LET g1 == GCD(Abs(x.n), y.d)
             g2 == GCD(Abs(y.n), x.d)
         IN  [n |-> (x.n \div g1) * (y.n \div g2), d |-> (x.d \div g2) * (y.d \div g1)]

RDiv(x, y) == Q(x.n * y.d * (IF y.n < 0 THEN -1 ELSE 1), x.d * Abs(y.n))

\* position on the extended line: -1, 0, 1 for -inf, finite, +inf
RRank(x) == IF x.d = 0 THEN x.n ELSE 0

\* x < y as the hardware compares: false as soon as one side is NaN
RLt(x, y) ==
    /\ ~IsNaN(x)
    /\ ~IsNaN(y)
    /\ IF x.d = 0 \/ y.d = 0 THEN RRank(x) < RRank(y)
       ELSE x.n * y.d < y.n * x.d

\* x <= y as the hardware compares
RLe(x, y) ==
    /\ ~IsNaN(x)
    /\ ~IsNaN(y)
    /\ IF x.d = 0 \/ y.d = 0 THEN RRank(x) <= RRank(y)
       ELSE x.n * y.d <= y.n * x.d

\* x == y as the hardware compares
REq(x, y) == ~IsNaN(x) /\ ~IsNaN(y) /\ x = y

\* std::min(a, b) is (b < a) ? b : a
RMin(a, b) == IF RLt(b, a) THEN b ELSE a

\* std::max(a, b) is (a < b) ? b : a
RMax(a, b) == IF RLt(a, b) THEN b ELSE a

(* ----------------------------------------------------------------------- *)
(* Vec3f                                                                   *)
(* ----------------------------------------------------------------------- *)

Vec3(x, y, z) == <<R(x), R(y), R(z)>>

VAdd(a, b) == [i \in 1..3 |-> RAdd(a[i], b[i])]
VSub(a, b) == [i \in 1..3 |-> RSub(a[i], b[i])]
VScale(s, a) == [i \in 1..3 |-> RMul(s, a[i])]
VDot(a, b) == RAdd(RAdd(RMul(a[1], b[1]), RMul(a[2], b[2])), RMul(a[3], b[3]))

cross(a, b) ==
    << RSub(RMul(a[2], b[3]), RMul(a[3], b[2])),
       RSub(RMul(a[3], b[1]), RMul(a[1], b[3])),
       RSub(RMul(a[1], b[2]), RMul(a[2], b[1])) >>

VZero == Vec3(0, 0, 0)

\* FLT_MAX stands for the largest finite float
FLT_MAX == 1000000

(* ----------------------------------------------------------------------- *)
(* OpenGL driver                                                           *)
(* ----------------------------------------------------------------------- *)

\* the name glGen* stores: some nonzero name (0 is reserved)
LiveName == 1

glGenVertexArrays(gl) == [gl |-> gl, id |-> LiveName]

glGenBuffers(gl) == [gl |-> gl, id |-> LiveName]

glDeleteVertexArrays(gl, id) == [gl EXCEPT !.deletes = @ + 1]

glDeleteBuffers(gl, id) == [gl EXCEPT !.deletes = @ + 1]

\* a sequence of <<kind, name>> deletions, in order
RECURSIVE glDeleteAll(_, _)
glDeleteAll(gl, dels) ==
    IF dels = <<>> THEN gl
    ELSE LET d == Head(dels)
             g == IF d[1] = "array" THEN glDeleteVertexArrays(gl, d[2])
                                    ELSE glDeleteBuffers(gl, d[2])
         IN  glDeleteAll(g, Tail(dels))

\* the driver before any call
InitGL ==
    [orphans |-> FALSE, deletes |-> 0,
     drawElements |-> 0, drawLines |-> 0, colorSource |-> "none", boundTextures |-> {},
     drawProgram |-> 0]

\* the record of issued calls, cleared at the start of every operation
glEnter(gl) == InitGL

\* the record an operation leaves when nothing reads its draw and delete calls
glLeave(gl) == [InitGL EXCEPT !.orphans = gl.orphans]

(* ----------------------------------------------------------------------- *)
(* TriangleMesh: GPU resources                                             *)
(* ----------------------------------------------------------------------- *)

ArrayHandles == {"VAO", "VAObb", "VAOn"}
BufferHandles == {"VBOv", "VBOn", "VBOf", "VBOc", "VBOt", "VBOtan", "VBOvbb", "VBOfbb", "VBOvn"}
Handles == ArrayHandles \cup BufferHandles

AllHandlesZero(m) == \A h \in Handles : m[h] = 0
AllHandlesNonzero(m) == \A h \in Handles : m[h] # 0

\* createVBO: generate, upload, and on a size mismatch delete again and return 0
createVBO(gl, uploadOk) ==
    LET g == glGenBuffers(gl)
    IN  IF uploadOk THEN g ELSE [gl |-> glDeleteBuffers(g.gl, g.id), id |-> 0]

\* handle = id: the object the handle named before, if any, is named by nothing now
StoreHandles(w, ids) ==
    [m  |-> [h \in DOMAIN w.m |-> IF h \in DOMAIN ids THEN ids[h] ELSE w.m[h]],
     gl |-> [w.gl EXCEPT !.orphans = @ \/ \E h \in DOMAIN ids : w.m[h] # 0]]

createBBVAO(w, uploadOk) ==
    LET a  == glGenVertexArrays(w.gl)
        bv == createVBO(a.gl, uploadOk)
        bf == createVBO(bv.gl, uploadOk)
    IN  StoreHandles([w EXCEPT !.gl = bf.gl],
                     [VAObb |-> a.id, VBOvbb |-> bv.id, VBOfbb |-> bf.id])

createNormalVAO(w, uploadOk) ==
    IF Len(w.m.vertices) # Len(w.m.normals) THEN w
    ELSE LET a == glGenVertexArrays(w.gl)
             b == createVBO(a.gl, uploadOk)
         IN  StoreHandles([w EXCEPT !.gl = b.gl], [VAOn |-> a.id, VBOvn |-> b.id])

\* createAllVBOs without the bounding-box vertex array
createAllVBOsWithoutBB(w, uploadOk) ==
    IF ~w.m.f THEN w
    ELSE
    LET m  == w.m
        a  == glGenVertexArrays(w.gl)
        bf == createVBO(a.gl, uploadOk)
        bv == createVBO(bf.gl, uploadOk)
        bn == createVBO(bv.gl, uploadOk)
        w1 == StoreHandles([w EXCEPT !.gl = bn.gl],
                           [VAO |-> a.id, VBOf |-> bf.id, VBOv |-> bv.id, VBOn |-> bn.id])
        w2 == IF Len(m.colors) = Len(m.vertices)
              THEN StoreHandles(w1, [VBOc |-> createVBO(w1.gl, uploadOk).id])
              ELSE w1
        w3 == IF Len(m.texCoords) = Len(m.vertices)
              THEN StoreHandles(w2, [VBOt |-> createVBO(w2.gl, uploadOk).id])
              ELSE w2
        w4 == IF Len(m.tangents) = Len(m.vertices)
              THEN StoreHandles(w3, [VBOtan |-> createVBO(w3.gl, uploadOk).id])
              ELSE w3
    IN  createNormalVAO(w4, uploadOk)

createAllVBOs(w, uploadOk) ==
    IF ~w.m.f THEN w
    ELSE
    LET m  == w.m
        a  == glGenVertexArrays(w.gl)
        bf == createVBO(a.gl, uploadOk)
        bv == createVBO(bf.gl, uploadOk)
        bn == createVBO(bv.gl, uploadOk)
        w1 == StoreHandles([w EXCEPT !.gl = bn.gl],
                           [VAO |-> a.id, VBOf |-> bf.id, VBOv |-> bv.id, VBOn |-> bn.id])
        w2 == IF Len(m.colors) = Len(m.vertices)
              THEN StoreHandles(w1, [VBOc |-> createVBO(w1.gl, uploadOk).id])
              ELSE w1
        w3 == IF Len(m.texCoords) = Len(m.vertices)
              THEN StoreHandles(w2, [VBOt |-> createVBO(w2.gl, uploadOk).id])
              ELSE w2
        w4 == IF Len(m.tangents) = Len(m.vertices)
              THEN StoreHandles(w3, [VBOtan |-> createVBO(w3.gl, uploadOk).id])
              ELSE w3
    IN  createNormalVAO(createBBVAO(w4, uploadOk), uploadOk)

\* cleanupVBO(f) that deletes every nonzero handle and keeps the handles
cleanupVBOKeepsHandles(w) ==
    LET m == w.m
        order == << <<"array", m.VAO>>, <<"buffer", m.VBOv>>, <<"buffer", m.VBOn>>,
                    <<"buffer", m.VBOf>>, <<"buffer", m.VBOc>>, <<"buffer", m.VBOt>>,
                    <<"buffer", m.VBOtan>>, <<"array", m.VAObb>>, <<"buffer", m.VBOvbb>>,
                    <<"buffer", m.VBOfbb>>, <<"array", m.VAOn>>, <<"buffer", m.VBOvn>> >>
        dels == SelectSeq(order, LAMBDA d : d[2] # 0)
    IN  [m  |-> m,
         gl |-> glDeleteAll(w.gl, dels)]

\* cleanupVBO(f): delete every nonzero handle, then zero all twelve
cleanupVBO_f(w) ==
    LET m == w.m
        order == << <<"array", m.VAO>>, <<"buffer", m.VBOv>>, <<"buffer", m.VBOn>>,
                    <<"buffer", m.VBOf>>, <<"buffer", m.VBOc>>, <<"buffer", m.VBOt>>,
                    <<"buffer", m.VBOtan>>, <<"array", m.VAObb>>, <<"buffer", m.VBOvbb>>,
                    <<"buffer", m.VBOfbb>>, <<"array", m.VAOn>>, <<"buffer", m.VBOvn>> >>
        dels == SelectSeq(order, LAMBDA d : d[2] # 0)
    IN  [m  |-> [h \in DOMAIN m |-> IF h \in Handles THEN 0 ELSE m[h]],
         gl |-> glDeleteAll(w.gl, dels)]

cleanupVBO(w) == IF ~w.m.f THEN w ELSE cleanupVBO_f(w)

(* ----------------------------------------------------------------------- *)
(* TriangleMesh: construction and raw data                                 *)
(* ----------------------------------------------------------------------- *)

ColoringTypes == {"STATIC_COLOR", "COLOR_ARRAY", "TEXTURE", "BUMP_MAPPING"}

\* a normal is v / sqrt(len2): len2 = 1 for a vector stored as given,
\* len2 = v.v after normalize()
Normal(v) == [v |-> v, len2 |-> R(1)]

normalize(nrm) == [v |-> nrm.v, len2 |-> RMul(nrm.len2, VDot(nrm.v, nrm.v))]

\* the members of a TriangleMesh before the constructor body runs
MeshMembers(f) ==
    [f |-> f,
     vertices |-> <<>>, triangles |-> <<>>, normals |-> <<>>, colors |-> <<>>,
     texCoords |-> <<>>, tangents |-> <<>>,
     boundingBoxMin |-> VZero, boundingBoxMax |-> VZero,
     boundingBoxMid |-> VZero, boundingBoxSize |-> VZero,
     coloringType |-> "STATIC_COLOR", withBB |-> FALSE, withNormals |-> FALSE,
     staticColor |-> Vec3(1, 1, 1),
     textureID |-> 0, normalMapID |-> 0, displacementMapID |-> 0,
     VAO |-> 0, VBOv |-> 0, VBOn |-> 0, VBOf |-> 0, VBOc |-> 0, VBOt |-> 0,
     VBOtan |-> 0, VAObb |-> 0, VBOvbb |-> 0, VBOfbb |-> 0, VAOn |-> 0, VBOvn |-> 0]

clear(w) ==
    cleanupVBO(
      [w EXCEPT !.m = [@ EXCEPT
          !.vertices = <<>>, !.triangles = <<>>, !.normals = <<>>,
          !.colors = <<>>, !.texCoords = <<>>,
          !.boundingBoxMin = Vec3(FLT_MAX, FLT_MAX, FLT_MAX),
          !.boundingBoxMax = Vec3(-FLT_MAX, -FLT_MAX, -FLT_MAX),
          !.boundingBoxMid = VZero, !.boundingBoxSize = VZero,
          !.coloringType = "STATIC_COLOR", !.withBB = FALSE, !.withNormals = FALSE,
          !.textureID = 0]])

\* TriangleMesh::TriangleMesh(f)
TriangleMesh(f, gl) == clear([m |-> MeshMembers(f), gl |-> gl])

setGLFunctionPtr(w) == [w EXCEPT !.m.f = TRUE]

translateToCenter(w, newBBmid, createVBOs, uploadOk) ==
    LET m     == w.m
        trans == VSub(newBBmid, m.boundingBoxMid)
        w1    == [w EXCEPT !.m = [@ EXCEPT
                     !.vertices = [i \in 1..Len(m.vertices) |-> VAdd(m.vertices[i], trans)],
                     !.boundingBoxMin = VAdd(@, trans),
                     !.boundingBoxMax = VAdd(@, trans),
                     !.boundingBoxMid = VAdd(@, trans)]]
    IN  IF createVBOs THEN createAllVBOs(cleanupVBO(w1), uploadOk) ELSE w1

scaleToLength(w, newLength, createVBOs, uploadOk) ==
    LET m      == w.m
        length == RMax(RMax(m.boundingBoxSize[1], m.boundingBoxSize[2]), m.boundingBoxSize[3])
        scale  == RDiv(newLength, length)
        w1     == [w EXCEPT !.m = [@ EXCEPT
                     !.vertices = [i \in 1..Len(m.vertices) |-> VScale(scale, m.vertices[i])],
                     !.boundingBoxMin = VScale(scale, @),
                     !.boundingBoxMax = VScale(scale, @),
                     !.boundingBoxMid = VScale(scale, @),
                     !.boundingBoxSize = VScale(scale, @)]]
    IN  IF createVBOs THEN createAllVBOs(cleanupVBO(w1), uploadOk) ELSE w1

\* normals.resize(n): keep what is there, fill with zero vectors
ResizeNormals(normals, n) ==
    [i \in 1..n |-> IF i <= Len(normals) THEN normals[i] ELSE Normal(VZero)]

\* pass 1 of calculateNormalsByArea: add each triangle's cross product to its corners
\* (the triangles lo..hi)
\* an index at or past the end of vertices is undefined: the read returns what the
\* memory there holds (past), the += lands outside of normals
RECURSIVE AccumulateNormals(_, _, _, _, _, _)
AccumulateNormals(normals, vertices, tris, lo, hi, past) ==
    IF lo > hi THEN normals
    ELSE IF lo = hi
    THEN LET t    == tris[lo]
             vertex(id) == IF id < Len(vertices) THEN vertices[id + 1] ELSE past
             vec1 == VSub(vertex(t[2]), vertex(t[1]))
             vec2 == VSub(vertex(t[3]), vertex(t[1]))
             nrm  == cross(vec1, vec2)
             hit(ns, id) == IF id < Len(ns)
                            THEN [ns EXCEPT ![id + 1] = [@ EXCEPT !.v = VAdd(@, nrm)]]
                            ELSE ns
         IN  hit(hit(hit(normals, t[1]), t[2]), t[3])
    ELSE LET first == AccumulateNormals(normals, vertices, tris, lo, Mid(lo, hi), past)
         IN  IF Evaluated(first)
             THEN AccumulateNormals(first, vertices, tris, Mid(lo, hi) + 1, hi, past)
             ELSE first

calculateNormalsByArea(m, past) ==
    LET summed == AccumulateNormals(ResizeNormals(m.normals, Len(m.vertices)),
                                    m.vertices, m.triangles, 1, Len(m.triangles), past)
    IN  [m EXCEPT !.normals = [i \in 1..Len(summed) |-> normalize(summed[i])]]

\* a texture coordinate is kept as the rule that made it and the rule's argument
TexCoord(rule, arg) == [rule |-> rule, arg |-> arg]

calculateTexCoordsSphereMapping(m) ==
    [m EXCEPT !.texCoords =
        [i \in 1..Len(m.vertices) |->
            TexCoord("sphereMapping", VSub(m.vertices[i], m.boundingBoxMid))]]

\* the box grown by the vertices lo..hi
RECURSIVE FoldBB(_, _, _, _)
FoldBB(box, vertices, lo, hi) ==
    IF lo > hi THEN box
    ELSE IF lo = hi
    THEN LET v == vertices[lo]
         IN  [min |-> [k \in 1..3 |-> RMin(v[k], box.min[k])],
              max |-> [k \in 1..3 |-> RMax(v[k], box.max[k])]]
    ELSE LET first == FoldBB(box, vertices, lo, Mid(lo, hi))
         IN  IF Evaluated(first) THEN FoldBB(first, vertices, Mid(lo, hi) + 1, hi) ELSE first

\* 0.5f * boundingBoxMin + 0.5f * boundingBoxMax
HalfSum(a, b) == VAdd(VScale(Q(1, 2), a), VScale(Q(1, 2), b))

calculateBB(m) ==
    LET box == FoldBB([min |-> Vec3(FLT_MAX, FLT_MAX, FLT_MAX),
                       max |-> Vec3(-FLT_MAX, -FLT_MAX, -FLT_MAX)],
                      m.vertices, 1, Len(m.vertices))
    IN  [m EXCEPT !.boundingBoxMin = box.min, !.boundingBoxMax = box.max,
                  !.boundingBoxMid = HalfSum(box.min, box.max),
                  !.boundingBoxSize = VSub(box.max, box.min)]

(* ----------------------------------------------------------------------- *)
(* TriangleMesh: loading                                                   *)
(* ----------------------------------------------------------------------- *)

\* what the stream yields for a file: whether it opens, the tag's characters,
\* the header counts, and the numbers of the body; past is what the memory behind
\* the vertices holds while the file is loaded
MeshFile(open, tag, nv, nf, verts, norms, faces) ==
    [open |-> open, tag |-> tag, nv |-> nv, nf |-> nf,
     verts |-> verts, norms |-> norms, faces |-> faces, past |-> VZero]

TriangleVerts == << Vec3(0, 0, 0), Vec3(1, 0, 0), Vec3(0, 1, 0) >>
UpNormals == << Vec3(0, 0, 1), Vec3(0, 0, 1), Vec3(0, 0, 1) >>

FileMissing == MeshFile(FALSE, <<>>, 0, 0, <<>>, <<>>, <<>>)
FileBadTag == MeshFile(TRUE, <<"P", "L", "Y">>, 3, 1, TriangleVerts, <<>>, << <<0, 1, 2>> >>)
FileNoFaces == MeshFile(TRUE, <<"O", "F", "F">>, 3, 0, TriangleVerts, <<>>, <<>>)
FileTriangle == MeshFile(TRUE, <<"O", "F", "F">>, 3, 1, TriangleVerts, <<>>, << <<0, 1, 2>> >>)
FileNoff == MeshFile(TRUE, <<"N", "O", "F", "F">>, 3, 1, TriangleVerts, UpNormals, << <<0, 1, 2>> >>)

Files == {FileMissing, FileBadTag, FileNoFaces, FileTriangle, FileNoff}

\* a file whose face names the vertex 3 of three vertices, over two memories
FileBadFace == MeshFile(TRUE, <<"O", "F", "F">>, 3, 1, TriangleVerts, <<>>, << <<0, 1, 3>> >>)
OddFiles == {FileTriangle, FileBadFace, [FileBadFace EXCEPT !.past = Vec3(0, 0, 1)]}

TagIsOFF(s) == Len(s) >= 3 /\ s[1] = "O" /\ s[2] = "F" /\ s[3] = "F"
TagIsNOFF(s) == Len(s) >= 4 /\ s[1] = "N" /\ s[2] = "O" /\ s[3] = "F" /\ s[4] = "F"

\* the load returns before it stores anything: file missing, or tag neither OFF nor NOFF
LoadFails(file) == ~file.open \/ (~TagIsOFF(file.tag) /\ ~TagIsNOFF(file.tag))

\* the load reaches the vertex loop
LoadReads(file) == ~LoadFails(file) /\ file.nv > 0 /\ file.nf > 0

\* the vertex loop writes normals[i] of a vector that clear() left with size 0
LoadWritesPastNormals(file) == LoadReads(file) /\ ~TagIsOFF(file.tag)

\* calculateNormalsByArea indexes vertices and normals with a face index that is
\* not smaller than the number of vertices
LoadIndexesPastVertices(file) ==
    /\ LoadReads(file)
    /\ TagIsOFF(file.tag)
    /\ \E k \in 1..Len(file.faces), j \in 1..3 : file.faces[k][j] >= file.nv

\* loadOFF(filename, createVBOs), when the write past normals (if any) goes unnoticed
loadOFF(w, file, createVBOs, uploadOk) ==
    LET w0 == clear(w)
    IN  IF ~LoadReads(file) THEN w0
        ELSE
        LET noff == ~TagIsOFF(file.tag)
            box  == FoldBB([min |-> w0.m.boundingBoxMin, max |-> w0.m.boundingBoxMax],
                           file.verts, 1, Len(file.verts))
            m1   == [w0.m EXCEPT !.vertices = file.verts,
                                 !.boundingBoxMin = box.min,
                                 !.boundingBoxMax = box.max,
                                 !.boundingBoxMid = HalfSum(box.min, box.max),
                                 !.boundingBoxSize = VSub(box.max, box.min),
                                 !.triangles = file.faces]
            m2   == IF noff THEN m1 ELSE calculateNormalsByArea(m1, file.past)
            w3   == [w0 EXCEPT !.m = calculateTexCoordsSphereMapping(m2)]
        IN  IF createVBOs THEN createAllVBOs(w3, uploadOk) ELSE w3

\* loadOFF(filename, BBmid, BBlength)
loadOFFScaled(w, file, BBmid, BBlength, uploadOk) ==
    scaleToLength(translateToCenter(loadOFF(w, file, FALSE, TRUE), BBmid, FALSE, TRUE),
                  BBlength, TRUE, uploadOk)

(* ----------------------------------------------------------------------- *)
(* TriangleMesh: sphere                                                    *)
(* ----------------------------------------------------------------------- *)

\* the generator's divisions, at the minimum the source allows (it uses 200 and 100);
\* at these values every angle is a multiple of a quarter turn and sin, cos are exact
longdiv == 4
latdiv == 2

\* sin and cos of q*pi for q a multiple of 1/2
SinPi(q) == LET k == ((2 * q.n) \div q.d) % 4 IN R(IF k = 1 THEN 1 ELSE IF k = 3 THEN -1 ELSE 0)
CosPi(q) == LET k == ((2 * q.n) \div q.d) % 4 IN R(IF k = 0 THEN 1 ELSE IF k = 2 THEN -1 ELSE 0)

SpherePos(latitude, longitude) ==
    LET v      == Q(latitude, latdiv)
        extent == SinPi(v)
        y      == RNeg(CosPi(v))
        u      == Q(longitude, longdiv)
        z      == RMul(SinPi(RMul(R(2), u)), extent)
        x      == RMul(CosPi(RMul(R(2), u)), extent)
    IN  <<x, y, z>>

\* the (latitude, longitude) of the k-th generated vertex, k from 1
SphereLat(k) == (k - 1) \div (longdiv + 1)
SphereLong(k) == (k - 1) % (longdiv + 1)

SphereCount == (latdiv + 1) * (longdiv + 1)

SphereTriangles ==
    [k \in 1..(2 * latdiv * longdiv) |->
        LET cell          == (k - 1) \div 2
            latitude      == cell \div longdiv
            longitude     == cell % longdiv
            bottomBase    == latitude * (longdiv + 1)
            topBase       == (latitude + 1) * (longdiv + 1)
            bottomCurrent == bottomBase + longitude
            bottomNext    == bottomBase + (longitude + 1)
            topCurrent    == topBase + longitude
            topNext       == topBase + (longitude + 1)
        IN  IF k % 2 = 1 THEN <<bottomCurrent, bottomNext, topNext>>
                         ELSE <<topNext, topCurrent, bottomCurrent>>]

\* what the vertex loop pushes, in order
SphereVertices == [k \in 1..SphereCount |-> SpherePos(SphereLat(k), SphereLong(k))]
SphereNormals == [k \in 1..SphereCount |-> Normal(SphereVertices[k])]
SphereTexCoords ==
    [k \in 1..SphereCount |->
        TexCoord("sphere", << RSub(R(2), RMul(R(2), Q(SphereLong(k), longdiv))),
                              Q(SphereLat(k), latdiv), R(0) >>)]
SphereTangents == [k \in 1..SphereCount |-> cross(Vec3(0, 1, 0), SphereVertices[k])]

generateSphere(w, uploadOk) ==
    LET w0  == setGLFunctionPtr(w)
        m1  == [w0.m EXCEPT
                  !.vertices  = @ \o SphereVertices,
                  !.normals   = @ \o SphereNormals,
                  !.texCoords = @ \o SphereTexCoords,
                  !.tangents  = @ \o SphereTangents,
                  !.triangles = @ \o SphereTriangles,
                  !.boundingBoxMid = Vec3(0, 0, 0),
                  !.boundingBoxSize = Vec3(2, 2, 2),
                  !.boundingBoxMin = Vec3(-1, -1, -1),
                  !.boundingBoxMax = Vec3(1, 1, 1)]
    IN  createAllVBOs([w0 EXCEPT !.m = m1], uploadOk)

(* ----------------------------------------------------------------------- *)
(* TriangleMesh: terrain (diamond-square)                                  *)
(* ----------------------------------------------------------------------- *)

\* a, a+st, a+2st, ... up to last
RECURSIVE Steps(_, _, _)
Steps(a, last, st) == IF a > last THEN <<>> ELSE <<a>> \o Steps(a + st, last, st)

\* heightmap[x][z]; a read outside the allocation is recorded in oob and
\* returns whatever the memory there holds (ts.junk)
HmRead(ts, x, z, w, h) ==
    IF x >= 0 /\ x <= w /\ z >= 0 /\ z <= h THEN ts.hm[<<x, z>>] ELSE ts.junk

HmInside(x, z, w, h) == x >= 0 /\ x <= w /\ z >= 0 /\ z <= h

\* dist(gen) * roughness - roughness * 0.5f with the next number of the tape
RandomOffset(ts, tape, roughness) ==
    RSub(RMul(tape[ts.k + 1], roughness), RMul(roughness, Q(1, 2)))

DiamondPoint(ts, x, z, halfStep, roughness, tape, w, h) ==
    LET a   == HmRead(ts, x - halfStep, z - halfStep, w, h)
        b   == HmRead(ts, x + halfStep, z - halfStep, w, h)
        c   == HmRead(ts, x - halfStep, z + halfStep, w, h)
        d   == HmRead(ts, x + halfStep, z + halfStep, w, h)
        avg == RMul(RAdd(RAdd(RAdd(a, b), c), d), Q(1, 4))
    IN  [ts EXCEPT !.hm  = [@ EXCEPT ![<<x, z>>] = RAdd(avg, RandomOffset(ts, tape, roughness))],
                   !.k   = @ + 1,
                   !.oob = @ \/ ~HmInside(x + halfStep, z + halfStep, w, h),
                   !.assigned = @ \cup {<<x, z>>}]

\* the points the square step at (x, z) reads: those of the four whose test passes
SquareReads(x, z, halfStep, w, h) ==
    (IF (x - halfStep) >= 0 /\ (z - halfStep) >= 0
     THEN {<<x - halfStep, z - halfStep>>} ELSE {})
    \cup (IF (x + halfStep) <= w /\ (z - halfStep) >= 0
          THEN {<<x + halfStep, z - halfStep>>} ELSE {})
    \cup (IF (x - halfStep) >= 0 /\ (z + halfStep) <= h
          THEN {<<x - halfStep, z + halfStep>>} ELSE {})
    \cup (IF (x + halfStep) <= w /\ (z + halfStep) <= h
          THEN {<<x + halfStep, z + halfStep>>} ELSE {})

\* avg of the square step at (x, z)
SquareAverage(ts, x, z, halfStep, w, h) ==
    LET ok1 == (x - halfStep) >= 0 /\ (z - halfStep) >= 0
        ok2 == (x + halfStep) <= w /\ (z - halfStep) >= 0
        ok3 == (x - halfStep) >= 0 /\ (z + halfStep) <= h
        ok4 == (x + halfStep) <= w /\ (z + halfStep) <= h
        s1  == IF ok1 THEN HmRead(ts, x - halfStep, z - halfStep, w, h) ELSE R(0)
        s2  == IF ok2 THEN RAdd(s1, HmRead(ts, x + halfStep, z - halfStep, w, h)) ELSE s1
        s3  == IF ok3 THEN RAdd(s2, HmRead(ts, x - halfStep, z + halfStep, w, h)) ELSE s2
        sum == IF ok4 THEN RAdd(s3, HmRead(ts, x + halfStep, z + halfStep, w, h)) ELSE s3
        count == (IF ok1 THEN 1 ELSE 0) + (IF ok2 THEN 1 ELSE 0)
                 + (IF ok3 THEN 1 ELSE 0) + (IF ok4 THEN 1 ELSE 0)
    IN  IF count > 0 THEN RDiv(sum, R(count)) ELSE R(0)

\* a function as the set of its <<argument, value>> pairs, and its value at p
Graph(f) == {<<p, f[p]>> : p \in DOMAIN f}
ValueAt(g, p) == (CHOOSE e \in g : e[1] = p)[2]

\* heightmap[x][z] = avg + offset of the square step; squares keeps, for each
\* point of the step, what was read and written
SquareWrite(ts, x, z, halfStep, avg, offset, reads) ==
    [ts EXCEPT !.hm = [@ EXCEPT ![<<x, z>>] = RAdd(avg, offset)],
               !.k  = @ + 1,
               !.assigned = @ \cup {<<x, z>>},
               !.squares = Append(@, [x |-> x, z |-> z, halfStep |-> halfStep,
                                      before |-> Graph(ts.hm), offset |-> offset,
                                      value |-> RAdd(avg, offset), reads |-> reads])]

SquarePoint(ts, x, z, halfStep, roughness, tape, w, h) ==
    SquareWrite(ts, x, z, halfStep, SquareAverage(ts, x, z, halfStep, w, h),
                RandomOffset(ts, tape, roughness), SquareReads(x, z, halfStep, w, h))

\* the (x, z) visited by the diamond step, in loop order
DiamondPoints(w, h, stepSize, halfStep) ==
    LET xs == Steps(halfStep, w - 1, stepSize)
        zs == Steps(halfStep, h - 1, stepSize)
    IN  [i \in 1..(Len(xs) * Len(zs)) |->
            << xs[((i - 1) \div Len(zs)) + 1], zs[((i - 1) % Len(zs)) + 1] >>]

\* the (x, z) visited by the square step, in loop order
RECURSIVE SquarePointsFrom(_, _, _, _, _)
SquarePointsFrom(x, w, h, stepSize, halfStep) ==
    IF x > w THEN <<>>
    ELSE LET z0 == IF (x \div halfStep) % 2 = 0 THEN halfStep ELSE 0
             zs == Steps(z0, h, stepSize)
         IN  [i \in 1..Len(zs) |-> <<x, zs[i]>>]
             \o SquarePointsFrom(x + halfStep, w, h, stepSize, halfStep)

\* the diamond step over the points lo..hi of pts
RECURSIVE DiamondStep(_, _, _, _, _, _, _, _, _)
DiamondStep(ts, pts, lo, hi, halfStep, roughness, tape, w, h) ==
    IF lo > hi THEN ts
    ELSE IF lo = hi
    THEN DiamondPoint(ts, pts[lo][1], pts[lo][2], halfStep, roughness, tape, w, h)
    ELSE LET first == DiamondStep(ts, pts, lo, Mid(lo, hi), halfStep, roughness, tape, w, h)
         IN  IF Evaluated(first)
             THEN DiamondStep(first, pts, Mid(lo, hi) + 1, hi, halfStep, roughness, tape, w, h)
             ELSE first

\* the square step over the points lo..hi of pts
RECURSIVE SquareStep(_, _, _, _, _, _, _, _, _)
SquareStep(ts, pts, lo, hi, halfStep, roughness, tape, w, h) ==
    IF lo > hi THEN ts
    ELSE IF lo = hi
    THEN SquarePoint(ts, pts[lo][1], pts[lo][2], halfStep, roughness, tape, w, h)
    ELSE LET first == SquareStep(ts, pts, lo, Mid(lo, hi), halfStep, roughness, tape, w, h)
         IN  IF Evaluated(first)
             THEN SquareStep(first, pts, Mid(lo, hi) + 1, hi, halfStep, roughness, tape, w, h)
             ELSE first

\* while (stepSize > 1) { diamond; square; stepSize /= 2; roughness *= 0.5f; }
RECURSIVE DiamondSquare(_, _, _, _, _, _)
DiamondSquare(ts, stepSize, roughness, tape, w, h) ==
    IF stepSize <= 1 THEN ts
    ELSE LET halfStep == stepSize \div 2
             dps == DiamondPoints(w, h, stepSize, halfStep)
             sps == SquarePointsFrom(0, w, h, stepSize, halfStep)
             t1 == DiamondStep(ts, dps, 1, Len(dps), halfStep, roughness, tape, w, h)
             t2 == SquareStep(t1, sps, 1, Len(sps), halfStep, roughness, tape, w, h)
         IN  DiamondSquare(t2, stepSize \div 2, RMul(roughness, Q(1, 2)), tape, w, h)

\* steps 2 to 4 of generateTerrain: the height field for a tape of random numbers
Heightmap(w, h, tape, junk) ==
    LET zero    == [p \in (0..w) \X (0..h) |-> R(0)]
        c1      == [zero EXCEPT ![<<0, 0>>] = tape[1]]
        c2      == [c1 EXCEPT ![<<w, 0>>] = tape[2]]
        c3      == [c2 EXCEPT ![<<0, h>>] = tape[3]]
        corners == [c3 EXCEPT ![<<w, h>>] = tape[4]]
    IN  DiamondSquare([hm |-> corners, k |-> 4, oob |-> FALSE, junk |-> junk,
                       assigned |-> {<<0, 0>>, <<w, 0>>, <<0, h>>, <<w, h>>},
                       squares |-> <<>>],
                      IF w > h THEN w ELSE h, R(3), tape, w, h)

\* std::clamp(v, lo, hi)
Clamp(v, lo, hi) == IF RLt(v, lo) THEN lo ELSE IF RLt(hi, v) THEN hi ELSE v

computeColor(heightValue) ==
    LET hv == Clamp(heightValue, R(0), R(10))
    IN  IF RLt(hv, Q(3, 2)) THEN <<R(0), R(0), R(1)>>
        ELSE IF RLt(hv, Q(5, 2)) THEN <<Q(1, 2), Q(7, 20), Q(1, 20)>>
        ELSE IF RLt(hv, R(4)) THEN <<R(0), Q(7, 10), R(0)>>
        ELSE IF RLt(hv, R(6)) THEN <<Q(1, 2), Q(1, 2), Q(1, 2)>>
        ELSE <<R(1), R(1), R(1)>>

TerrainTriangles(w, h) ==
    [k \in 1..(2 * w * h) |->
        LET cell == (k - 1) \div 2
            z    == cell \div w
            x    == cell % w
            i0   == z * (w + 1) + x
            i1   == i0 + 1
            i2   == (z + 1) * (w + 1) + x
            i3   == i2 + 1
        IN  IF k % 2 = 1 THEN <<i0, i2, i1>> ELSE <<i1, i2, i3>>]

\* how many random numbers generateTerrain(h, w) draws
TerrainDraws(w, h) == Heightmap(w, h, [i \in 1..((w + 1) * (h + 1) * 4) |-> R(0)], R(0)).k

\* generateTerrain(h, w) reads heightmap[x][z] outside the (w+1) x (h+1) allocation
TerrainReadsOutside(w, h) ==
    Heightmap(w, h, [i \in 1..((w + 1) * (h + 1) * 4) |-> R(0)], R(0)).oob

\* steps 5 and 6 of generateTerrain on the cleared mesh m0: vertices, placeholder
\* normals, colours and triangles from the height field, then normals and box
TerrainMesh(m0, h, w, tape, junk) ==
    LET ts == Heightmap(w, h, tape, junk)
        n  == (w + 1) * (h + 1)
        ys == [k \in 1..n |-> ts.hm[<<(k - 1) % (w + 1), (k - 1) \div (w + 1)>>]]
        m1 == [m0 EXCEPT
                 !.vertices  = @ \o [k \in 1..n |-> <<R((k - 1) % (w + 1)), ys[k], R((k - 1) \div (w + 1))>>],
                 !.normals   = @ \o [k \in 1..n |-> Normal(Vec3(0, 1, 0))],
                 !.colors    = @ \o [k \in 1..n |-> computeColor(ys[k])],
                 !.triangles = @ \o TerrainTriangles(w, h)]
    IN  calculateBB(calculateNormalsByArea(m1, VZero))

(* ----------------------------------------------------------------------- *)
(* RenderState and 4x4 matrices                                            *)
(* ----------------------------------------------------------------------- *)

\* a matrix is its data() array: sixteen numbers, element (row r, column c) at 4c + r
MatFromRows(rows) == [i \in 0..15 |-> R(rows[(i % 4) + 1][(i \div 4) + 1])]

MatAt(M, r, c) == M[4 * c + r]

MatMul(A, B) ==
    [i \in 0..15 |->
        LET r == i % 4
            c == i \div 4
        IN  RAdd(RAdd(RMul(MatAt(A, r, 0), MatAt(B, 0, c)), RMul(MatAt(A, r, 1), MatAt(B, 1, c))),
                 RAdd(RMul(MatAt(A, r, 2), MatAt(B, 2, c)), RMul(MatAt(A, r, 3), MatAt(B, 3, c))))]

Identity == MatFromRows(<< <<1, 0, 0, 0>>, <<0, 1, 0, 0>>, <<0, 0, 1, 0>>, <<0, 0, 0, 1>> >>)

Translation(v) ==
    [i \in 0..15 |-> IF i = 12 THEN v[1] ELSE IF i = 13 THEN v[2] ELSE IF i = 14 THEN v[3]
                     ELSE Identity[i]]

Scaling(v) ==
    [i \in 0..15 |-> IF i = 0 THEN v[1] ELSE IF i = 5 THEN v[2] ELSE IF i = 10 THEN v[3]
                     ELSE Identity[i]]

\* QMatrix4x4::translate and ::scale multiply from the right
translate(M, v) == MatMul(M, Translation(v))
scale(M, v) == MatMul(M, Scaling(v))

\* a perspective projection with near 1, far 3 and a right-angle field of view
Perspective == MatFromRows(<< <<1, 0, 0, 0>>, <<0, 1, 0, 0>>, <<0, 0, -2, -3>>, <<0, 0, -1, 0>> >>)

\* an orthographic projection that flattens x: its x row is zero
FlatX == MatFromRows(<< <<0, 0, 0, 0>>, <<0, 1, 0, 0>>, <<0, 0, 1, 0>>, <<0, 0, 0, 1>> >>)

Projections == {Identity, Perspective, FlatX}

ModelViews == {Identity, Translation(Vec3(0, 0, -2)), Translation(Vec3(10, 0, 0))}

getCurrentModelViewMatrix(state) == state.modelView[Len(state.modelView)]

\* pushes, pops and low count the calls and keep the smallest depth the stack had
pushModelViewMatrix(state) ==
    [state EXCEPT !.modelView = Append(@, getCurrentModelViewMatrix(state)),
                  !.pushes = @ + 1]

popModelViewMatrix(state) ==
    [state EXCEPT !.modelView = SubSeq(@, 1, Len(@) - 1),
                  !.pops = @ + 1,
                  !.low = IF Len(state.modelView) - 1 < @ THEN Len(state.modelView) - 1 ELSE @]

\* the counts of the stack, cleared at the start of a draw scope and after it
stackEnter(state) == [state EXCEPT !.pushes = 0, !.pops = 0, !.low = Len(state.modelView)]
stackLeave(state) == [state EXCEPT !.pushes = 0, !.pops = 0, !.low = 0]

setTopModelViewMatrix(state, M) ==
    [state EXCEPT !.modelView = [@ EXCEPT ![Len(@)] = M]]

switchToStandardProgram(state) == [state EXCEPT !.currentProgram = state.standardProgram]

setCurrentProgram(state, id) == [state EXCEPT !.currentProgram = id]

(* ----------------------------------------------------------------------- *)
(* TriangleMesh: view-frustum culling and draw                             *)
(* ----------------------------------------------------------------------- *)

Plane(a, b, c, d) == [a |-> a, b |-> b, c |-> c, d |-> d]

\* the six planes of the clip matrix, before normalisation, in the source's order
ExtractPlanes(m) ==
    << Plane(RSub(m[3], m[0]), RSub(m[7], m[4]), RSub(m[11], m[8]),  RSub(m[15], m[12])),
       Plane(RAdd(m[3], m[0]), RAdd(m[7], m[4]), RAdd(m[11], m[8]),  RAdd(m[15], m[12])),
       Plane(RAdd(m[3], m[1]), RAdd(m[7], m[5]), RAdd(m[11], m[9]),  RAdd(m[15], m[13])),
       Plane(RSub(m[3], m[1]), RSub(m[7], m[5]), RSub(m[11], m[9]),  RSub(m[15], m[13])),
       Plane(RAdd(m[3], m[2]), RAdd(m[7], m[6]), RAdd(m[11], m[10]), RAdd(m[15], m[14])),
       Plane(RSub(m[3], m[2]), RSub(m[7], m[6]), RSub(m[11], m[10]), RSub(m[15], m[14])) >>

PlaneLength2(p) == RAdd(RAdd(RMul(p.a, p.a), RMul(p.b, p.b)), RMul(p.c, p.c))

\* Plane::normalize divides the four coefficients by length = sqrt(a*a + b*b + c*c).
\* A length of zero is divided by as it stands (0/0 is NaN, d/0 is an infinity);
\* a positive length scales all four by the same positive factor, which the
\* model leaves out because only the sign of the plane equation is read.
PlaneNormalize(p) ==
    IF PlaneLength2(p) = R(0)
    THEN Plane(RDiv(p.a, R(0)), RDiv(p.b, R(0)), RDiv(p.c, R(0)), RDiv(p.d, R(0)))
    ELSE p

\* plane.a * x + plane.b * y + plane.c * z + plane.d
PlaneValue(p, corner) ==
    RAdd(RAdd(RAdd(RMul(p.a, corner[1]), RMul(p.b, corner[2])), RMul(p.c, corner[3])), p.d)

BoxCorners(min, max) ==
    << <<min[1], min[2], min[3]>>, <<max[1], min[2], min[3]>>,
       <<min[1], max[2], min[3]>>, <<max[1], max[2], min[3]>>,
       <<min[1], min[2], max[3]>>, <<max[1], min[2], max[3]>>,
       <<min[1], max[2], max[3]>>, <<max[1], max[2], max[3]>> >>

ClipMatrix(state) == MatMul(state.projection, getCurrentModelViewMatrix(state))

\* the planes and the corners are computed first (raw, corners), then each plane
\* is normalised (p) and tested: a plane with all eight corners outside hides the box
boundingBoxIsVisible(m, state) ==
    \A raw \in {ExtractPlanes(ClipMatrix(state))} :
      \A corners \in {BoxCorners(m.boundingBoxMin, m.boundingBoxMax)} :
        \A i \in 1..6 :
          \A p \in {PlaneNormalize(raw[i])} :
            ~(\A k \in 1..8 : ~RLe(R(0), PlaneValue(p, corners[k])))

\* drawBB that returns without popModelViewMatrix
drawBBWithoutPop(m, d) ==
    LET s1 == pushModelViewMatrix(d.state)
        M  == scale(translate(getCurrentModelViewMatrix(s1), m.boundingBoxMid), m.boundingBoxSize)
    IN  [d EXCEPT !.state = setTopModelViewMatrix(s1, M),
                  !.gl = [@ EXCEPT !.drawLines = @ + 1]]

\* drawBB: the unit box, moved and sized to the bounding box, as lines
drawBB(m, d) ==
    LET s1 == pushModelViewMatrix(d.state)
        M  == scale(translate(getCurrentModelViewMatrix(s1), m.boundingBoxMid), m.boundingBoxSize)
        s2 == setTopModelViewMatrix(s1, M)
    IN  [d EXCEPT !.state = popModelViewMatrix(s2),
                  !.gl = [@ EXCEPT !.drawLines = @ + 1]]

drawNormals(m, d) == [d EXCEPT !.gl = [@ EXCEPT !.drawLines = @ + 1]]

\* drawVBO whose TEXTURE case ends with break when there is no texture
drawVBOWithoutFallthrough(m, d) ==
    LET src ==
          CASE m.coloringType = "BUMP_MAPPING" -> "bump"
            [] m.coloringType = "TEXTURE" /\ m.textureID # 0 -> "texture"
            [] m.coloringType = "COLOR_ARRAY" /\ m.VBOc # 0 -> "colorArray"
            [] OTHER -> "static"
        tex ==
          CASE src = "texture" -> {<<0, m.textureID>>}
            [] src = "bump" -> {<<0, m.textureID>>, <<1, m.normalMapID>>, <<3, m.displacementMapID>>}
            [] OTHER -> {}
    IN  [d EXCEPT !.gl = [@ EXCEPT !.drawElements = @ + 1,
                                   !.colorSource = src,
                                   !.boundTextures = tex,
                                   !.drawProgram = d.state.currentProgram]]

\* drawVBO: pick the colour source for coloringType, then the indexed draw
drawVBO(m, d) ==
    LET src ==
          CASE m.coloringType = "BUMP_MAPPING" -> "bump"
            [] m.coloringType = "TEXTURE" /\ m.textureID # 0 -> "texture"
            [] m.coloringType \in {"TEXTURE", "COLOR_ARRAY"} /\ m.VBOc # 0 -> "colorArray"
            [] OTHER -> "static"
        tex ==
          CASE src = "texture" -> {<<0, m.textureID>>}
            [] src = "bump" -> {<<0, m.textureID>>, <<1, m.normalMapID>>, <<3, m.displacementMapID>>}
            [] OTHER -> {}
    IN  [d EXCEPT !.gl = [@ EXCEPT !.drawElements = @ + 1,
                                   !.colorSource = src,
                                   !.boundTextures = tex,
                                   !.drawProgram = d.state.currentProgram]]

\* draw(state) without the test of the vertex-array handle
drawUntestedHandle(m, state, gl) ==
    LET d0 == [state |-> state, gl |-> gl, ret |-> 0]
    IN  IF ~boundingBoxIsVisible(m, state) THEN d0
        ELSE
        LET formerProgram == state.currentProgram
            d1 == [d0 EXCEPT !.state = switchToStandardProgram(@)]
            d2 == IF m.withBB THEN drawBB(m, d1) ELSE d1
            d3 == IF m.withNormals THEN drawNormals(m, d2) ELSE d2
            d4 == IF m.withBB \/ m.withNormals
                  THEN [d3 EXCEPT !.state = setCurrentProgram(@, formerProgram)]
                  ELSE d0
        IN  [drawVBO(m, d4) EXCEPT !.ret = Len(m.triangles)]

\* draw(state) that leaves the standard program bound after the debug lines
drawWithoutRestore(m, state, gl) ==
    LET d0 == [state |-> state, gl |-> gl, ret |-> 0]
    IN  IF ~boundingBoxIsVisible(m, state) THEN d0
        ELSE IF m.VAO = 0 THEN d0
        ELSE
        LET d1 == [d0 EXCEPT !.state = switchToStandardProgram(@)]
            d2 == IF m.withBB THEN drawBB(m, d1) ELSE d1
            d3 == IF m.withNormals THEN drawNormals(m, d2) ELSE d2
            d4 == IF m.withBB \/ m.withNormals THEN d3 ELSE d0
        IN  [drawVBO(m, d4) EXCEPT !.ret = Len(m.triangles)]

\* draw(state): d carries the RenderState and the driver through the call
draw(m, state, gl) ==
    LET d0 == [state |-> state, gl |-> gl, ret |-> 0]
    IN  IF ~boundingBoxIsVisible(m, state) THEN d0
        ELSE IF m.VAO = 0 THEN d0
        ELSE
        LET formerProgram == state.currentProgram
            d1 == [d0 EXCEPT !.state = switchToStandardProgram(@)]
            d2 == IF m.withBB THEN drawBB(m, d1) ELSE d1
            d3 == IF m.withNormals THEN drawNormals(m, d2) ELSE d2
            d4 == IF m.withBB \/ m.withNormals
                  THEN [d3 EXCEPT !.state = setCurrentProgram(@, formerProgram)]
                  ELSE d0
        IN  [drawVBO(m, d4) EXCEPT !.ret = Len(m.triangles)]

(* ----------------------------------------------------------------------- *)
(* The state machine                                                       *)
(* ----------------------------------------------------------------------- *)

VARIABLES
    mesh,       \* the TriangleMesh object
    gl,         \* the driver: live names and what the last operation issued
    state,      \* the RenderState
    crashed,    \* the process ended in a memory fault or a fatal error
    hist,       \* what the last operations were, and what draw returned
    view        \* the OpenGLView that owns the meshes of the scene

vars == <<mesh, gl, state, crashed, hist, view>>

World == [m |-> mesh, gl |-> glEnter(gl)]

InitState ==
    [modelView |-> <<Identity>>, projection |-> Identity,
     currentProgram |-> 1, standardProgram |-> 1,
     pushes |-> 0, pops |-> 0, low |-> 0]

\* a mesh on its own: no OpenGLView
NoView == [init |-> FALSE]

InitHist ==
    [drew |-> FALSE, ret |-> 0, visible |-> FALSE,
     load |-> "none", populated |-> FALSE, transforms |-> 0, cleanups |-> 0, freeing |-> 0,
     ask |-> <<0, 0>>]

\* a mesh is constructed with the context's function table or without one
Init ==
    /\ \E f \in BOOLEAN : mesh = TriangleMesh(f, InitGL).m
    /\ gl = InitGL
    /\ state = InitState
    /\ crashed = FALSE
    /\ hist = InitHist
    /\ view = NoView

(* ----------------------------------------------------------------------- *)
(* Inputs                                                                  *)
(* ----------------------------------------------------------------------- *)

\* an operation that may rebuild the GPU resources: <<createVBOs, uploadOk>>, where
\* uploadOk says whether the driver stores the data of this call's buffers
Rebuilds == {<<FALSE, TRUE>>, <<TRUE, TRUE>>, <<TRUE, FALSE>>}

\* createVBOs of translateToCenter and scaleToLength
Flags == BOOLEAN

Centers == {Vec3(1, 2, 3)}

Lengths == {R(-1), R(2)}

\* BBlength of the three-argument loadOFF
BoxLengths == {R(2)}

\* generateTerrain's (h, w) in the life cycle: a size whose reads stay inside the heightmap
TerrainSizes == {<<1, 2>>}

\* generateTerrain's (h, w) when the sizes themselves are the question
GridSizes == (1..MaxGrid) \X (1..MaxGrid)

\* what a read outside the heightmap returns: no number, or some number
Junk == {NaN, R(7)}

\* what dist(gen) returns, from [0, 5): a low and a high value
RandLow == R(0)
RandHigh == R(4)

\* random tapes of length n: all draws low, and only the first high
Tapes(n) ==
    { [i \in 1..n |-> RandLow],
      [i \in 1..n |-> IF i = 1 THEN RandHigh ELSE RandLow] }

\* <<h, w, tape>> for generateTerrain
TerrainInputs ==
    UNION {{<<sz[1], sz[2], tape>> : tape \in Tapes(TerrainDraws(sz[2], sz[1]))} : sz \in TerrainSizes}

\* generateTerrain(h, w, iterations)
generateTerrain(wd, h, w, tape, junk, uploadOk) ==
    LET w0 == clear(wd)
    IN  createAllVBOs([w0 EXCEPT !.m = TerrainMesh(w0.m, h, w, tape, junk)], uploadOk)

(* ----------------------------------------------------------------------- *)
(* Actions                                                                 *)
(* ----------------------------------------------------------------------- *)

\* the history after an operation that is neither a draw nor a cleanupVBO
After(h) ==
    [h EXCEPT !.drew = FALSE, !.ret = 0, !.visible = FALSE, !.cleanups = 0, !.freeing = 0]

Clear ==
    /\ ~crashed
    /\ LET w2 == clear(World)
       IN  /\ mesh' = w2.m
           /\ gl' = glLeave(w2.gl)
    /\ hist' = [After(hist) EXCEPT !.load = "none", !.populated = FALSE, !.transforms = 0]
    /\ UNCHANGED <<state, crashed>>
    /\ UNCHANGED view

SetGLFunctionPtr ==
    /\ ~crashed
    /\ ~mesh.f
    /\ mesh' = setGLFunctionPtr(World).m
    /\ gl' = glLeave(glEnter(gl))
    /\ hist' = After(hist)
    /\ UNCHANGED <<state, crashed>>
    /\ UNCHANGED view

CleanupVBO ==
    /\ ~crashed
    /\ LET w2 == cleanupVBO(World)
       IN  /\ mesh' = w2.m
           /\ gl' = glLeave(w2.gl)
           /\ hist' = [hist EXCEPT !.drew = FALSE, !.ret = 0, !.visible = FALSE, !.load = "none",
                          !.cleanups = IF @ < 2 THEN @ + 1 ELSE @,
                          !.freeing = IF w2.gl.deletes > 0 /\ @ < 2 THEN @ + 1 ELSE @]
    /\ UNCHANGED <<state, crashed>>
    /\ UNCHANGED view

\* the normals[i] write of a NOFF file ends the process
LoadFault ==
    /\ mesh' = clear(World).m
    /\ gl' = glLeave(clear(World).gl)
    /\ crashed' = TRUE
    /\ hist' = [After(hist) EXCEPT !.load = "none", !.populated = FALSE, !.transforms = 0]

LoadOFF ==
    /\ ~crashed
    /\ \E file \in Files, rb \in Rebuilds :
         \/ LET w2 == loadOFF(World, file, rb[1], rb[2])
            IN  /\ mesh' = w2.m
                /\ gl' = glLeave(w2.gl)
                /\ crashed' = FALSE
                /\ hist' = [After(hist) EXCEPT
                               !.load = IF LoadFails(file) THEN "failed"
                                        ELSE IF TagIsNOFF(file.tag) THEN "noff" ELSE "ok",
                               !.populated = LoadReads(file),
                               !.transforms = 0]
         \/ /\ LoadWritesPastNormals(file)
            /\ LoadFault
    /\ UNCHANGED state
    /\ UNCHANGED view

LoadOFFScaled ==
    /\ ~crashed
    /\ \E file \in Files, BBmid \in Centers, BBlength \in BoxLengths, uploadOk \in BOOLEAN :
         \/ LET w2 == loadOFFScaled(World, file, BBmid, BBlength, uploadOk)
            IN  /\ mesh' = w2.m
                /\ gl' = glLeave(w2.gl)
                /\ crashed' = FALSE
                /\ hist' = [After(hist) EXCEPT
                               !.load = IF LoadFails(file) THEN "failed"
                                        ELSE IF TagIsNOFF(file.tag) THEN "noff" ELSE "ok",
                               !.populated = LoadReads(file),
                               !.transforms = 0]
         \/ /\ LoadWritesPastNormals(file)
            /\ LoadFault
    /\ UNCHANGED state
    /\ UNCHANGED view

GenerateSphere ==
    /\ ~crashed
    /\ Len(mesh.tangents) < MaxSphereCalls * SphereCount
    /\ \E uploadOk \in BOOLEAN :
         LET w2 == generateSphere(World, uploadOk)
         IN  /\ mesh' = w2.m
             /\ gl' = glLeave(w2.gl)
    /\ hist' = [After(hist) EXCEPT !.load = "none", !.populated = TRUE]
    /\ UNCHANGED <<state, crashed>>
    /\ UNCHANGED view

GenerateTerrain ==
    /\ ~crashed
    /\ \E in \in TerrainInputs, uploadOk \in BOOLEAN :
         LET w2 == generateTerrain(World, in[1], in[2], in[3], NaN, uploadOk)
         IN  /\ mesh' = w2.m
             /\ gl' = glLeave(w2.gl)
    /\ hist' = [After(hist) EXCEPT !.load = "terrain", !.populated = TRUE, !.transforms = 0]
    /\ UNCHANGED <<state, crashed>>
    /\ UNCHANGED view

TranslateToCenter ==
    /\ ~crashed
    /\ hist.transforms < MaxTransforms
    /\ \E newBBmid \in Centers, createVBOs \in Flags :
         LET w2 == translateToCenter(World, newBBmid, createVBOs, TRUE)
         IN  /\ mesh' = w2.m
             /\ gl' = glLeave(w2.gl)
    /\ hist' = [After(hist) EXCEPT !.load = "none", !.transforms = @ + 1]
    /\ UNCHANGED <<state, crashed>>
    /\ UNCHANGED view

ScaleToLength ==
    /\ ~crashed
    /\ hist.transforms < MaxTransforms
    /\ \E newLength \in Lengths, createVBOs \in Flags :
         LET w2 == scaleToLength(World, newLength, createVBOs, TRUE)
         IN  /\ mesh' = w2.m
             /\ gl' = glLeave(w2.gl)
    /\ hist' = [After(hist) EXCEPT !.load = "none", !.transforms = @ + 1]
    /\ UNCHANGED <<state, crashed>>
    /\ UNCHANGED view

toggleBB(m, enable) == [m EXCEPT !.withBB = enable]

toggleNormals(m, enable) == [m EXCEPT !.withNormals = enable]

ToggleBB ==
    /\ ~crashed
    /\ mesh' = toggleBB(mesh, ~mesh.withBB)
    /\ gl' = glLeave(glEnter(gl))
    /\ hist' = After(hist)
    /\ UNCHANGED <<state, crashed>>
    /\ UNCHANGED view

ToggleNormals ==
    /\ ~crashed
    /\ mesh' = toggleNormals(mesh, ~mesh.withNormals)
    /\ gl' = glLeave(glEnter(gl))
    /\ hist' = After(hist)
    /\ UNCHANGED <<state, crashed>>
    /\ UNCHANGED view

\* the driver of the RenderState sets projection and model-view before a draw
SetMatrices ==
    /\ ~crashed
    /\ \E P \in Projections, MV \in ModelViews :
         /\ state' = [state EXCEPT !.projection = P, !.modelView = <<MV>>]
         /\ <<P, MV>> # <<state.projection, getCurrentModelViewMatrix(state)>>
    /\ gl' = glLeave(glEnter(gl))
    /\ hist' = After(hist)
    /\ UNCHANGED <<mesh, crashed>>
    /\ UNCHANGED view

Draw ==
    /\ ~crashed
    /\ LET r == draw(mesh, stackEnter(state), glEnter(gl))
       IN  /\ gl' = r.gl
           /\ state' = stackLeave(r.state)
           /\ hist' = [hist EXCEPT !.drew = TRUE, !.ret = r.ret,
                          !.visible = boundingBoxIsVisible(mesh, state), !.cleanups = 0,
                          !.freeing = 0]
    /\ UNCHANGED <<mesh, crashed>>
    /\ UNCHANGED view

\* generateTerrain(h, w, iterations) for the h and w asked for (hist.ask). A read
\* outside the heightmap is undefined: it returns some value or ends the process.
GenerateTerrainAsked ==
    /\ ~crashed
    /\ hist.load # "terrain"
    /\ LET h == hist.ask[1]
           w == hist.ask[2]
       IN  \E tape \in Tapes(TerrainDraws(w, h)), uploadOk \in BOOLEAN :
             \/ \E junk \in (IF TerrainReadsOutside(w, h) THEN Junk ELSE {NaN}) :
                  LET w2 == generateTerrain(World, h, w, tape, junk, uploadOk)
                  IN  /\ mesh' = w2.m
                      /\ gl' = glLeave(w2.gl)
                      /\ crashed' = FALSE
             \/ /\ TerrainReadsOutside(w, h)
                /\ mesh' = clear(World).m
                /\ gl' = glLeave(clear(World).gl)
                /\ crashed' = TRUE
    /\ hist' = [After(hist) EXCEPT !.load = "terrain", !.populated = TRUE, !.transforms = 0]
    /\ UNCHANGED state
    /\ UNCHANGED view

\* the life cycle of a mesh: population, transformation, GPU resources
Next ==
    \/ Clear
    \/ SetGLFunctionPtr
    \/ CleanupVBO
    \/ LoadOFF
    \/ LoadOFFScaled
    \/ GenerateSphere
    \/ GenerateTerrain
    \/ TranslateToCenter
    \/ ScaleToLength

Spec == Init /\ [][Next]_vars

\* a loaded mesh under the frame's matrices: what draw decides and issues
NextDraw ==
    \/ Clear
    \/ SetGLFunctionPtr
    \/ LoadOFF
    \/ LoadOFFScaled
    \/ ToggleBB
    \/ ToggleNormals
    \/ SetMatrices
    \/ Draw

SpecDraw == Init /\ [][NextDraw]_vars

\* loadOFF(filename, createVBOs) of a file whose face indices nobody checked. An
\* index past the vertices is undefined in calculateNormalsByArea: the load goes on
\* with what the memory holds, or the process ends.
LoadOddOFF ==
    /\ ~crashed
    /\ \E file \in OddFiles, rb \in Rebuilds :
         /\ \E r \in {loadOFF(World, file, rb[1], rb[2])} :
              mesh' = r.m /\ gl' = glLeave(r.gl)
         /\ crashed' \in {FALSE, LoadIndexesPastVertices(file)}
    /\ hist' = [After(hist) EXCEPT !.load = "ok", !.populated = TRUE, !.transforms = 0]
    /\ UNCHANGED state
    /\ UNCHANGED view

\* meshes from files as they come, and their draws
NextFiles ==
    \/ Clear
    \/ SetGLFunctionPtr
    \/ LoadOddOFF
    \/ ToggleBB
    \/ ToggleNormals
    \/ Draw

SpecFiles == Init /\ [][NextFiles]_vars

\* generateTerrain over a grid of sizes
InitTerrain ==
    /\ \E f \in BOOLEAN : mesh = TriangleMesh(f, InitGL).m
    /\ gl = InitGL
    /\ state = InitState
    /\ crashed = FALSE
    /\ \E sz \in GridSizes : hist = [InitHist EXCEPT !.ask = sz]
    /\ view = NoView

NextTerrain ==
    \/ Clear
    \/ SetGLFunctionPtr
    \/ GenerateTerrainAsked

SpecTerrain == InitTerrain /\ [][NextTerrain]_vars

(* ----------------------------------------------------------------------- *)
(* OpenGLView: the scene, its shader programs and the frame                *)
(* ----------------------------------------------------------------------- *)

setStaticColor(m, color) == [m EXCEPT !.staticColor = color]
setTexture(m, id) == [m EXCEPT !.textureID = id]
setNormalTexture(m, id) == [m EXCEPT !.normalMapID = id]
setDisplacementTexture(m, id) == [m EXCEPT !.displacementMapID = id]
setColoringMode(m, type) == [m EXCEPT !.coloringType = type]

\* the RenderState a view is constructed with: no program yet
ViewState == [InitState EXCEPT !.currentProgram = 0, !.standardProgram = 0]

setStandardProgram(st, id) == [st EXCEPT !.standardProgram = id]

loadIdentityModelViewMatrix(st) == setTopModelViewMatrix(st, Identity)

\* no paintGL has run since the last change of the scene
NoFrame == [done |-> FALSE]

\* OpenGLView(): setDefaults() on the members, two meshes without function table
setDefaults(vw) ==
    [vw EXCEPT !.cameraPos = <<0, 0, -3>>, !.gridSize = 3, !.trianglesLastRun = 0]

OpenGLView ==
    setDefaults(
      [init |-> FALSE, sized |-> FALSE,
       cameraPos |-> <<0, 0, 0>>, gridSize |-> 0, trianglesLastRun |-> 0,
       mesh_culled |-> 0, mesh_drawn |-> 0,
       objectPositions |-> <<>>,
       meshes |-> <<>>,
       sphereMesh |-> TriangleMesh(FALSE, InitGL).m,
       bumpSphereMesh |-> TriangleMesh(FALSE, InitGL).m,
       programIDs |-> <<>>, currentProgramID |-> 0, bumpProgramID |-> 0,
       lightPos |-> <<0, 5, 20>>,
       lastTotal |-> 0,
       notified |-> <<>>,
       compiled |-> {},
       asked |-> <<>>,
       slots |-> 0,
       frame |-> NoFrame])

\* the names readShaders returns for the three programs of initializeGL; 0 is failure
LightProgram == 1
LambertProgram == 2
BumpProgram == 3

\* what generateRandomPosition appends: positions from [-10, 10]^3, here a run of
\* positions that repeats, so that the instances of a frame are partly inside the
\* frustum and partly outside
PositionRun == << <<0, 0, -5>>, <<10, 0, 0>>, <<-10, 0, 0>>, <<0, 0, -10>>, <<0, 0, 10>> >>
PositionCount == 5 * MaxGridSize
Positions == [i \in 1..PositionCount |-> PositionRun[((i - 1) % Len(PositionRun)) + 1]]

IntVec(v) == Vec3(v[1], v[2], v[3])

\* what a read past the end of objectPositions returns: a place inside the
\* frustum or one outside of it; NoPosition when the frame reads no such place
JunkPositions == { <<0, 0, -5>>, <<10, 0, 0>> }
NoPosition == <<0, 0, 0>>

\* initializeGL with the outcome of every load: in.plane is the file of meshes[0],
\* in.tex the four texture names, in.light, in.lambert and in.bump the program names
initializeGL(vw, st, in) ==
    LET sphere == loadOFF(setGLFunctionPtr([m |-> vw.sphereMesh, gl |-> InitGL]),
                          in.sphere, TRUE, TRUE).m
        plane  == loadOFF(TriangleMesh(TRUE, InitGL), in.plane, TRUE, TRUE).m
        ground == generateTerrain(TriangleMesh(TRUE, InitGL), in.terrain[1], in.terrain[2],
                                  in.terrain[3], NaN, TRUE).m
        bump   == generateSphere([m |-> vw.bumpSphereMesh, gl |-> InitGL], TRUE).m
        ids    == (IF in.light # 0 THEN <<in.light>> ELSE <<>>)
                  \o (IF in.lambert # 0 THEN <<in.lambert>> ELSE <<>>)
    IN  [view |->
           [vw EXCEPT
              !.init = TRUE,
              !.objectPositions = @ \o Positions,
              !.sphereMesh = setStaticColor(sphere, Vec3(1, 1, 0)),
              !.meshes = @ \o
                 << setColoringMode(setTexture(setStaticColor(plane, Vec3(0, 1, 0)), in.tex[1]),
                                    "TEXTURE"),
                    setColoringMode(setStaticColor(ground, Vec3(1, 1, 0)), "COLOR_ARRAY") >>,
              !.bumpSphereMesh =
                 setDisplacementTexture(
                   setNormalTexture(
                     setTexture(
                       setColoringMode(setStaticColor(bump, <<Q(4, 5), Q(4, 5), Q(4, 5)>>), "BUMP_MAPPING"),
                       in.tex[2]),
                     in.tex[3]),
                   in.tex[4]),
              !.programIDs = @ \o ids,
              !.compiled = @ \cup {0, 1},
              !.currentProgramID = in.light,
              !.bumpProgramID = in.bump],
         state |-> IF in.light # 0 THEN setStandardProgram(st, in.light) ELSE st]

\* resizeGL: the projection, and a walk through the programs to hand it to each
resizeGL(vw, st) ==
    LET s1 == [st EXCEPT !.projection = Perspective]
        s2 == setCurrentProgram(switchToStandardProgram(s1), vw.bumpProgramID)
    IN  IF vw.programIDs = <<>> THEN s2
        ELSE setCurrentProgram(s2, vw.programIDs[Len(vw.programIDs)])

(* ----------------------------------------------------------------------- *)
(* OpenGLView: paintGL                                                     *)
(* ----------------------------------------------------------------------- *)

\* state.getCurrentModelViewMatrix().translate(v)
translateTop(st, v) == setTopModelViewMatrix(st, translate(getCurrentModelViewMatrix(st), v))

\* lookAt(cameraPos, cameraPos + cameraDir, up) for cameraDir = (0, 0, -1) and
\* up = (0, 1, 0), the directions setDefaults leaves: the move by -cameraPos
lookAt(st, cameraPos) ==
    translateTop(st, IntVec(<<-cameraPos[1], -cameraPos[2], -cameraPos[3]>>))

\* the frame with one more entry in the log of its draw calls: r is what draw returned
logDraw(fr, who, m, r) ==
    [fr EXCEPT
       !.state = r.state,
       !.ret = r.ret,
       !.log = Append(@,
          [who |-> who, ret |-> r.ret,
           modelView |-> getCurrentModelViewMatrix(fr.state),
           vao |-> m.VAO,
           issued |-> r.gl.drawElements,
           lines |-> r.gl.drawLines,
           program |-> r.gl.drawProgram,
           lineProgram |-> fr.state.standardProgram,
           source |-> r.gl.colorSource,
           textures |-> r.gl.boundTextures,
           coloring |-> m.coloringType,
           bound0 |-> fr.state.currentProgram,
           bound1 |-> r.state.currentProgram])]

\* one call of a mesh's draw: fr carries the RenderState, the log of the frame's
\* draw calls, the return value of the last one and paintGL's locals
meshDraw(fr, who, m) == logDraw(fr, who, m, draw(m, fr.state, InitGL))

pushed(fr) == [fr EXCEPT !.state = pushModelViewMatrix(@)]
popped(fr) == [fr EXCEPT !.state = popModelViewMatrix(@)]
moved(fr, v) == [fr EXCEPT !.state = translateTop(@, v)]
withProgram(fr, id) == [fr EXCEPT !.state = setCurrentProgram(@, id)]

\* trianglesDrawn += the value draw returned
added(fr) == [fr EXCEPT !.trianglesDrawn = @ + fr.ret]

\* if (triangles_check == 0) mesh_culled++; trianglesDrawn += triangles_check
counted(fr) ==
    [fr EXCEPT !.mesh_culled = IF fr.ret = 0 THEN @ + 1 ELSE @,
               !.trianglesDrawn = @ + fr.ret]

\* paintGL up to drawSkybox, which is empty, and switchToStandardProgram
beginFrame(vw, st, junk) ==
    [state |-> switchToStandardProgram(
                 lookAt(loadIdentityModelViewMatrix(stackEnter(st)), vw.cameraPos)),
     log |-> <<>>, ret |-> 0, csProgram |-> 0, mesh_culled |-> 0, trianglesDrawn |-> 0, i |-> 0,
     junk |-> junk, past |-> FALSE]

\* drawCS: six line vertices with the program that is current
drawCS(fr) == [fr EXCEPT !.csProgram = fr.state.currentProgram]

\* drawLight: the light's sphere at the light position; what draw returns is dropped
drawLight(fr, vw) ==
    popped(meshDraw(moved(pushed(fr), IntVec(vw.lightPos)), "sphereMesh", vw.sphereMesh))

\* the bump-mapped sphere, under bumpProgramID
drawBumpSphere(fr, vw) ==
    popped(added(meshDraw(moved(pushed(withProgram(fr, vw.bumpProgramID)), Vec3(0, 5, 0)),
                          "bumpSphereMesh", vw.bumpSphereMesh)))

\* the loop variable of a for loop: for (i = first; ...; ++i)
from(fr, first) == [fr EXCEPT !.i = first]
next(fr) == [fr EXCEPT !.i = @ + 1]

\* objectPositions[i]: past the end of the vector the read is undefined and
\* returns whatever the memory there holds (fr.junk); past records such a read
positionOf(fr, vw) ==
    IF fr.i < Len(vw.objectPositions) THEN vw.objectPositions[fr.i + 1] ELSE fr.junk

\* translate(objectPositions[i][0], objectPositions[i][1], objectPositions[i][2])
placed(fr, vw) ==
    [fr EXCEPT !.state = translateTop(@, IntVec(positionOf(fr, vw))),
               !.past = @ \/ ~(fr.i < Len(vw.objectPositions))]

\* the loop over the instances of meshes[0]: for (i = 0; i < gridSize * 5; ++i)
RECURSIVE drawInstances(_, _)
drawInstances(fr, vw) ==
    IF ~(fr.i < vw.gridSize * 5) THEN fr
    ELSE drawInstances(
           next(counted(meshDraw(placed(fr, vw), "instance", vw.meshes[1]))),
           vw)

\* the loop over the other meshes: for (i = 1; i < meshes.size(); ++i)
RECURSIVE drawOthers(_, _)
drawOthers(fr, vw) ==
    IF ~(fr.i < Len(vw.meshes)) THEN fr
    ELSE drawOthers(next(added(meshDraw(fr, "mesh", vw.meshes[fr.i + 1]))), vw)

\* the end of paintGL: the signal, the counts, and the record of the frame
endFrame(vw, st, fr) ==
    [view |->
       [vw EXCEPT
          !.mesh_culled = fr.mesh_culled,
          !.mesh_drawn = vw.gridSize * 5 - fr.mesh_culled,
          !.trianglesLastRun = IF fr.trianglesDrawn # @ THEN fr.trianglesDrawn ELSE @,
          !.lastTotal = fr.trianglesDrawn,
          !.notified = IF fr.trianglesDrawn # vw.trianglesLastRun
                       THEN <<fr.trianglesDrawn>> ELSE @,
          !.frame =
             [done |-> TRUE,
              log |-> fr.log,
              total |-> fr.trianglesDrawn,
              before |-> vw.lastTotal,
              emitted |-> IF fr.trianglesDrawn # vw.trianglesLastRun
                          THEN <<fr.trianglesDrawn>> ELSE <<>>,
              csProgram |-> fr.csProgram,
              past |-> fr.past,
              depth0 |-> Len(st.modelView),
              depth1 |-> Len(fr.state.modelView),
              pushes |-> fr.state.pushes,
              pops |-> fr.state.pops,
              low |-> fr.state.low]],
     state |-> stackLeave(fr.state)]

paintGL(vw, st, junk) ==
    endFrame(vw, st,
      drawOthers(
        from(popped(drawInstances(
                      from(pushed(withProgram(drawBumpSphere(drawLight(drawCS(beginFrame(vw, st, junk)), vw), vw),
                                              vw.currentProgramID)),
                           0),
                      vw)),
             1),
        vw))

(* ----------------------------------------------------------------------- *)
(* OpenGLView: the slots                                                   *)
(* ----------------------------------------------------------------------- *)

\* changeShader(index): programIDs.at(index) throws std::out_of_range for an index
\* that is not loaded, and the handler ends the process with qFatal
\* changeShader with programIDs[index] in place of programIDs.at(index): past the
\* end it reads what lies behind the vector, here 0
changeShaderUnchecked(vw, index) ==
    IF index < Len(vw.programIDs)
    THEN [view |-> [vw EXCEPT !.currentProgramID = vw.programIDs[index + 1]], fatal |-> FALSE]
    ELSE [view |-> [vw EXCEPT !.currentProgramID = 0], fatal |-> FALSE]

\* changeShader: programIDs.at(index) throws past the end, and qFatal ends the process
changeShader(vw, index) ==
    IF index < Len(vw.programIDs)
    THEN [view |-> [vw EXCEPT !.currentProgramID = vw.programIDs[index + 1]], fatal |-> FALSE]
    ELSE [view |-> vw, fatal |-> TRUE]

\* compileShader: programHandle is what readShaders returned, 0 for a failure
compileShader(vw, programHandle) ==
    IF programHandle # 0
    THEN [vw EXCEPT !.programIDs = Append(@, programHandle),
                    !.compiled = @ \cup {Len(vw.programIDs)}]
    ELSE vw

\* getTriangleCount returns its local result, which is never added to
getTriangleCount == 0

\* setGridSize emits triangleCountChanged(getTriangleCount())
setGridSize(vw, gridSize) ==
    [vw EXCEPT !.gridSize = gridSize, !.notified = <<getTriangleCount>>]

\* cameraMoves for cameraDir = (0, 0, -1): ortho = (1, 0, 0), up = (0, -1, 0)
cameraMoves(vw, deltaX, deltaY, deltaZ) ==
    [vw EXCEPT !.cameraPos = <<@[1] + deltaX, @[2] - deltaY, @[3] - deltaZ>>]

toggleBoundingBox(vw, enable) ==
    [vw EXCEPT !.meshes = [i \in 1..Len(@) |-> toggleBB(@[i], enable)],
               !.bumpSphereMesh = toggleBB(@, enable)]

toggleNormalsOfView(vw, enable) ==
    [vw EXCEPT !.meshes = [i \in 1..Len(@) |-> toggleNormals(@[i], enable)],
               !.bumpSphereMesh = toggleNormals(@, enable)]

recreateTerrain(vw, in) ==
    [vw EXCEPT !.meshes[2] =
        generateTerrain(clear([m |-> @, gl |-> InitGL]), in[1], in[2], in[3], NaN, TRUE).m]

\* what initializeGL finds on disk: the file of meshes[0], the names of the four
\* textures, the programs readShaders returns (0 for a failure), and the random
\* heights of the terrain
LoadOutcome(plane, light, lambert, bump) ==
    [sphere |-> FileTriangle, plane |-> plane,
     terrain |-> <<1, 2, [i \in 1..TerrainDraws(2, 1) |-> RandLow]>>,
     tex |-> <<11, 12, 13, 14>>,
     light |-> light, lambert |-> lambert, bump |-> bump]

LoadOutcomes ==
    { LoadOutcome(FileTriangle, LightProgram, LambertProgram, BumpProgram),
      LoadOutcome(FileMissing, LightProgram, LambertProgram, BumpProgram),
      LoadOutcome(FileTriangle, 0, LambertProgram, BumpProgram) }

\* where the camera is moved: in front of the instances, of the bump sphere, of the light
CameraPlaces == { <<0, 0, -3>>, <<0, 5, 2>>, <<0, 5, 22>> }
CameraSteps == { <<0, -5, -5>>, <<0, -5, -25>>, <<0, 5, 5>>, <<0, 5, 25>> }

\* the view after an event: the record of the last frame is dropped
Slot(vw) == [vw EXCEPT !.frame = NoFrame, !.asked = <<>>, !.slots = @ + 1]

InitializeGL ==
    /\ ~crashed
    /\ ~view.init
    /\ \E in \in LoadOutcomes :
         \E r \in {initializeGL(view, state, in)} : view' = r.view /\ state' = r.state
    /\ UNCHANGED <<mesh, gl, crashed, hist>>

ResizeGL ==
    /\ ~crashed
    /\ view.init
    /\ view.slots < MaxSlots
    /\ state' = resizeGL(view, state)
    /\ view' = Slot([view EXCEPT !.sized = TRUE])
    /\ UNCHANGED <<mesh, gl, crashed, hist>>

\* a frame. A read past the end of objectPositions is undefined: it returns some
\* position and the frame goes on, or it ends the process.
PaintGL ==
    /\ ~crashed
    /\ view.sized
    /\ \E junk \in (IF view.gridSize * 5 > Len(view.objectPositions)
                    THEN JunkPositions ELSE {NoPosition}) :
         \E r \in {paintGL(view, state, junk)} :
           /\ view' = r.view
           /\ state' = r.state
           /\ crashed' \in {FALSE, r.view.frame.past}
    /\ UNCHANGED <<mesh, gl, hist>>

ChangeShader ==
    /\ ~crashed
    /\ view.init
    /\ view.slots < MaxSlots
    /\ \E index \in 0..MaxPrograms :
         \E r \in {changeShader(view, index)} :
           /\ view' = [Slot(r.view) EXCEPT !.asked = <<index>>]
           /\ crashed' = r.fatal
    /\ UNCHANGED <<mesh, gl, state, hist>>

CompileShader ==
    /\ ~crashed
    /\ view.init
    /\ view.slots < MaxSlots
    /\ Len(view.programIDs) < MaxPrograms
    /\ \E programHandle \in {0, BumpProgram + 1 + Len(view.programIDs)} :
         view' = Slot(compileShader(view, programHandle))
    /\ UNCHANGED <<mesh, gl, state, crashed, hist>>

SetGridSize ==
    /\ ~crashed
    /\ view.init
    /\ view.slots < MaxSlots
    /\ \E gridSize \in 1..MaxGridSize : view' = Slot(setGridSize(view, gridSize))
    /\ UNCHANGED <<mesh, gl, state, crashed, hist>>

CameraMoves ==
    /\ ~crashed
    /\ view.init
    /\ view.slots < MaxSlots
    /\ \E d \in CameraSteps :
         LET vw == cameraMoves(view, d[1], d[2], d[3])
         IN  vw.cameraPos \in CameraPlaces /\ view' = Slot(vw)
    /\ UNCHANGED <<mesh, gl, state, crashed, hist>>

ToggleBoundingBox ==
    /\ ~crashed
    /\ view.init
    /\ view.slots < MaxSlots
    /\ \E enable \in BOOLEAN : view' = Slot(toggleBoundingBox(view, enable))
    /\ UNCHANGED <<mesh, gl, state, crashed, hist>>

ToggleNormalsOfView ==
    /\ ~crashed
    /\ view.init
    /\ view.slots < MaxSlots
    /\ \E enable \in BOOLEAN : view' = Slot(toggleNormalsOfView(view, enable))
    /\ UNCHANGED <<mesh, gl, state, crashed, hist>>

SetDefaults ==
    /\ ~crashed
    /\ view.init
    /\ view.slots < MaxSlots
    /\ view' = Slot(setDefaults(view))
    /\ UNCHANGED <<mesh, gl, state, crashed, hist>>

RecreateTerrain ==
    /\ ~crashed
    /\ view.init
    /\ view.slots < MaxSlots
    /\ \E in \in TerrainInputs : view' = Slot(recreateTerrain(view, in))
    /\ UNCHANGED <<mesh, gl, state, crashed, hist>>

InitView ==
    /\ mesh = TriangleMesh(FALSE, InitGL).m
    /\ gl = InitGL
    /\ state = ViewState
    /\ crashed = FALSE
    /\ hist = InitHist
    /\ view = OpenGLView

NextView ==
    \/ InitializeGL
    \/ ResizeGL
    \/ PaintGL
    \/ SetGridSize
    \/ CameraMoves
    \/ ToggleBoundingBox
    \/ ToggleNormalsOfView
    \/ SetDefaults

SpecView == InitView /\ [][NextView]_vars

\* setGridSize takes an int: sizes below 1 and sizes whose instances outnumber
\* the generated positions, next to a size of the usual range
AnyGridSizes == {-1, 0, 1, MaxGridSize + 1}

SetAnyGridSize ==
    /\ ~crashed
    /\ view.init
    /\ view.slots < MaxSlots
    /\ \E gridSize \in AnyGridSizes : view' = Slot(setGridSize(view, gridSize))
    /\ UNCHANGED <<mesh, gl, state, crashed, hist>>

\* frames of a view whose grid size is any int
NextGrid ==
    \/ InitializeGL
    \/ ResizeGL
    \/ PaintGL
    \/ SetAnyGridSize

SpecGrid == InitView /\ [][NextGrid]_vars

\* the programs of a view: what the frames are not needed for
NextShader ==
    \/ InitializeGL
    \/ ResizeGL
    \/ ChangeShader
    \/ CompileShader
    \/ RecreateTerrain

SpecShader == InitView /\ [][NextShader]_vars

\* a mesh on its own, its colouring mode and its textures

\* what loadImageIntoTexture returned for the three images: 0 is a failure
TextureLoads == {<<0, 0, 0>>, <<11, 0, 0>>, <<11, 12, 0>>, <<11, 12, 13>>, <<0, 12, 13>>}

SetColoringMode ==
    /\ ~crashed
    /\ \E type \in ColoringTypes :
         /\ type # mesh.coloringType
         /\ mesh' = setColoringMode(mesh, type)
    /\ gl' = glLeave(glEnter(gl))
    /\ hist' = After(hist)
    /\ UNCHANGED <<state, crashed, view>>

SetTextures ==
    /\ ~crashed
    /\ \E ids \in TextureLoads :
         /\ ids # <<mesh.textureID, mesh.normalMapID, mesh.displacementMapID>>
         /\ mesh' = setDisplacementTexture(setNormalTexture(setTexture(mesh, ids[1]), ids[2]), ids[3])
    /\ gl' = glLeave(glEnter(gl))
    /\ hist' = After(hist)
    /\ UNCHANGED <<state, crashed, view>>

\* loadOFF(filename) with the buffers created
LoadOFFWithVBOs ==
    /\ ~crashed
    /\ \E file \in {FileTriangle, FileMissing}, uploadOk \in BOOLEAN :
         \E w2 \in {loadOFF(World, file, TRUE, uploadOk)} :
           /\ mesh' = w2.m
           /\ gl' = glLeave(w2.gl)
           /\ hist' = [After(hist) EXCEPT !.load = IF LoadFails(file) THEN "failed" ELSE "ok",
                                          !.populated = LoadReads(file),
                                          !.transforms = 0]
    /\ UNCHANGED <<state, crashed, view>>

NextColor ==
    \/ SetGLFunctionPtr
    \/ LoadOFFWithVBOs
    \/ GenerateTerrain
    \/ SetColoringMode
    \/ SetTextures
    \/ Draw

SpecColor == Init /\ [][NextColor]_vars

(* ----------------------------------------------------------------------- *)
(* Properties of draw and of the frustum test, under SpecDraw              *)
(* ----------------------------------------------------------------------- *)

\* C1: draw returns 0 and issues no indexed draw when the vertex-array handle
\* is zero or the bounding box fails the frustum test; otherwise it issues the
\* indexed draw once and returns the number of triangles of the mesh.
C1_DrawReturn ==
    hist.drew =>
        IF mesh.VAO = 0 \/ ~boundingBoxIsVisible(mesh, state)
        THEN hist.ret = 0 /\ gl.drawElements = 0
        ELSE hist.ret = Len(mesh.triangles) /\ gl.drawElements = 1

\* a draw of a visible mesh with resources returned its triangle count
C1_Witness ==
    /\ hist.drew
    /\ mesh.VAO # 0
    /\ hist.visible
    /\ hist.ret = Len(mesh.triangles)
    /\ hist.ret > 0
    /\ gl.drawElements = 1

\* C2: the frustum test answers true exactly when every one of the six planes
\* extracted from projection x modelView has a box corner with
\* a*x + b*y + c*z + d >= 0, and false exactly when some plane has all eight
\* corners strictly on its negative side.
C2_VisibleIffCornerTest ==
    hist.drew =>
        LET raw     == ExtractPlanes(ClipMatrix(state))
            corners == BoxCorners(mesh.boundingBoxMin, mesh.boundingBoxMax)
            someInside(i)  == \E k \in 1..8 : RLe(R(0), PlaneValue(raw[i], corners[k]))
            allNegative(i) == \A k \in 1..8 : RLt(PlaneValue(raw[i], corners[k]), R(0))
        IN  /\ hist.visible <=> \A i \in 1..6 : someInside(i)
            /\ ~hist.visible <=> \E i \in 1..6 : allNegative(i)

\* C3: a box with a corner inside the canonical clip volume (w > 0 and
\* -w <= x, y, z <= w after multiplication by the clip matrix) passes the
\* frustum test, and a mesh with resources is then drawn.
C3_NoFalseNegative ==
    hist.drew =>
        LET clip    == ClipMatrix(state)
            corners == BoxCorners(mesh.boundingBoxMin, mesh.boundingBoxMax)
            coord(r, c) ==
                RAdd(RAdd(RMul(MatAt(clip, r, 0), c[1]), RMul(MatAt(clip, r, 1), c[2])),
                     RAdd(RMul(MatAt(clip, r, 2), c[3]), MatAt(clip, r, 3)))
            inside(c) ==
                /\ RLt(R(0), coord(3, c))
                /\ \A r \in 0..2 : RLe(RNeg(coord(3, c)), coord(r, c)) /\ RLe(coord(r, c), coord(3, c))
        IN  (\E k \in 1..8 : inside(corners[k])) =>
                hist.visible /\ (mesh.VAO # 0 => gl.drawElements = 1)

\* C4: a plane with a = b = c = 0 is a no-op of the frustum test: the answer
\* is the corner test on the other planes alone.
C4_DegeneratePlaneIsNoOp ==
    hist.drew =>
        LET raw     == ExtractPlanes(ClipMatrix(state))
            corners == BoxCorners(mesh.boundingBoxMin, mesh.boundingBoxMax)
            degenerate(i) == raw[i].a = R(0) /\ raw[i].b = R(0) /\ raw[i].c = R(0)
            someInside(i) == \E k \in 1..8 : RLe(R(0), PlaneValue(raw[i], corners[k]))
        IN  (\E i \in 1..6 : degenerate(i)) =>
                (hist.visible <=> \A i \in 1..6 : degenerate(i) \/ someInside(i))

(* ----------------------------------------------------------------------- *)
(* Properties of the mesh life cycle, under Spec                           *)
(* ----------------------------------------------------------------------- *)

\* C5: after any sequence of mesh operations the twelve GPU handles of the
\* mesh are either all nonzero or all zero.
C5_AllOrNothing == AllHandlesZero(mesh) \/ AllHandlesNonzero(mesh)

\* C5, amended: the main and the bounding-box vertex array are both zero or
\* both nonzero, and while the main vertex array is zero every handle is zero.
C5_ArraysTogether ==
    /\ mesh.VAO # 0 <=> mesh.VAObb # 0
    /\ mesh.VAO = 0 => AllHandlesZero(mesh)

\* a load of a file without colours built resources: the colour buffer is zero
\* beside a nonzero vertex array
C5_Witness ==
    /\ hist.load = "ok"
    /\ mesh.VAO # 0
    /\ mesh.VAObb # 0
    /\ mesh.VBOv # 0
    /\ mesh.VBOc = 0

\* C6: a cleanupVBO leaves every handle zero; a cleanupVBO that follows another,
\* or that finds every handle zero, issues no delete and leaves the mesh as it is.
C6_CleanupIdempotent ==
    [][hist'.cleanups >= 1 =>
          /\ AllHandlesZero(mesh')
          /\ (hist.cleanups >= 1 \/ AllHandlesZero(mesh)) =>
                 (mesh' = mesh /\ hist'.freeing = hist.freeing)]_vars

\* two cleanupVBO calls in a row, the first of which deleted objects
C6_Witness ==
    /\ hist.cleanups >= 2
    /\ hist.freeing = 1
    /\ AllHandlesZero(mesh)

\* C7: no operation stores a new handle over a nonzero one that was not
\* deleted: createAllVBOs is entered with all handles zero.
C7_NoHandleOverwritten == ~gl.orphans

\* C8: a load that failed (file missing, or tag neither OFF nor NOFF), through
\* either overload, leaves no vertices, no triangles and all handles zero.
C8_FailedLoadLeavesEmpty ==
    hist.load = "failed" =>
        /\ mesh.vertices = <<>>
        /\ mesh.triangles = <<>>
        /\ AllHandlesZero(mesh)

\* C9: after a successful load or a generation, and after any translateToCenter
\* and scaleToLength that follow, Min <= Max, Mid = (Min + Max) / 2 and
\* Size = Max - Min on every axis, and every vertex is inside the box.
C9_BoundingBox ==
    (hist.populated /\ ~crashed) =>
        \A i \in 1..3 :
            /\ RLe(mesh.boundingBoxMin[i], mesh.boundingBoxMax[i])
            /\ REq(mesh.boundingBoxMid[i],
                   RMul(Q(1, 2), RAdd(mesh.boundingBoxMin[i], mesh.boundingBoxMax[i])))
            /\ REq(mesh.boundingBoxSize[i], RSub(mesh.boundingBoxMax[i], mesh.boundingBoxMin[i]))
            /\ \A k \in 1..Len(mesh.vertices) :
                   /\ RLe(mesh.boundingBoxMin[i], mesh.vertices[k][i])
                   /\ RLe(mesh.vertices[k][i], mesh.boundingBoxMax[i])

\* C10: normals is as long as vertices, and colors, texCoords and tangents are
\* each empty or as long as vertices.
C10_AttributesParallel ==
    ~crashed =>
        /\ Len(mesh.normals) = Len(mesh.vertices)
        /\ \A a \in {"colors", "texCoords", "tangents"} : Len(mesh[a]) \in {0, Len(mesh.vertices)}

\* C11: calculateNormalsByArea leaves at every vertex the normalised sum of the
\* cross products of the triangles incident to the vertex, whatever normals held
\* before: after a load of an OFF file and after generateTerrain every normal
\* points the way that sum points.
C11_NormalsFromIncidentTriangles ==
    (hist.load \in {"ok", "terrain"} /\ ~crashed) =>
        \A i \in 1..Len(mesh.vertices) :
            LET tris == mesh.triangles
                area(t) == cross(VSub(mesh.vertices[t[2] + 1], mesh.vertices[t[1] + 1]),
                                 VSub(mesh.vertices[t[3] + 1], mesh.vertices[t[1] + 1]))
                sum[k \in 0..Len(tris)] ==
                    IF k = 0 THEN VZero
                    ELSE IF (i - 1) \in {tris[k][1], tris[k][2], tris[k][3]}
                         THEN VAdd(sum[k - 1], area(tris[k]))
                         ELSE sum[k - 1]
                expected == sum[Len(tris)]
                got == mesh.normals[i].v
            IN  /\ cross(got, expected) = VZero
                /\ RLt(R(0), VDot(got, expected)) \/ (got = VZero /\ expected = VZero)

(* ----------------------------------------------------------------------- *)
(* Properties of generateTerrain, under SpecTerrain                        *)
(* ----------------------------------------------------------------------- *)

\* C12: for every w >= 1 and h >= 1 generateTerrain(h, w, ...) produces exactly
\* (w+1)*(h+1) vertices and 2*w*h triangles, the two of each cell being
\* (i0,i2,i1) and (i1,i2,i3) for the cell's row-major corners, and every index
\* is smaller than the number of vertices.
C12_TerrainCounts ==
    hist.load = "terrain" =>
        LET h == hist.ask[1]
            w == hist.ask[2]
        IN  /\ ~crashed
            /\ Len(mesh.vertices) = (w + 1) * (h + 1)
            /\ Len(mesh.triangles) = 2 * w * h
            /\ \A z \in 0..(h - 1), x \in 0..(w - 1) :
                 LET cell == z * w + x
                     i0 == z * (w + 1) + x
                     i1 == i0 + 1
                     i2 == (z + 1) * (w + 1) + x
                     i3 == i2 + 1
                 IN  /\ mesh.triangles[2 * cell + 1] = <<i0, i2, i1>>
                     /\ mesh.triangles[2 * cell + 2] = <<i1, i2, i3>>
            /\ \A k \in 1..Len(mesh.triangles), j \in 1..3 :
                 mesh.triangles[k][j] < Len(mesh.vertices)

(* ----------------------------------------------------------------------- *)
(* Properties of paintGL, under SpecView                                   *)
(* ----------------------------------------------------------------------- *)

\* C13: over one paintGL the model-view stack is pushed as often as it is popped,
\* its depth never falls below the depth it had when the frame began, and the
\* frame ends at that depth, whatever the instances, the culling and the toggles.
C13_StackDiscipline ==
    view.frame.done =>
        /\ view.frame.pushes = view.frame.pops
        /\ view.frame.low >= view.frame.depth0
        /\ view.frame.depth1 = view.frame.depth0

\* a frame with culled and drawn instances and with bounding boxes drawn
C13_Witness ==
    /\ view.frame.done
    /\ \E i, j, k \in 1..Len(view.frame.log) :
         /\ view.frame.log[i].who = "instance" /\ view.frame.log[i].issued = 0
         /\ view.frame.log[j].who = "instance" /\ view.frame.log[j].issued = 1
         /\ view.frame.log[k].lines > 0
    /\ view.frame.pushes > 3
    /\ view.frame.pushes = view.frame.pops

\* the sum of the values the draw calls lo..hi of a frame returned
RECURSIVE SumOfReturns(_, _, _)
SumOfReturns(log, lo, hi) ==
    IF lo > hi THEN 0
    ELSE IF lo = hi THEN log[lo].ret
    ELSE SumOfReturns(log, lo, Mid(lo, hi)) + SumOfReturns(log, Mid(lo, hi) + 1, hi)

\* the frustum test of draw call e of the frame just painted, for mesh m
InFrustum(m, e) == boundingBoxIsVisible(m, [state EXCEPT !.modelView = <<e.modelView>>])

\* C14: after a frame over k = gridSize * 5 instances, mesh_culled is the number
\* of instances whose draw returned 0 because the frustum test rejected them (and
\* for no other reason), mesh_drawn is k - mesh_culled, and the frame's triangle
\* total is the sum of the values all draw calls of the frame returned.
C14_DrawCounts ==
    view.frame.done =>
        LET log == view.frame.log
            instances == {i \in 1..Len(log) : log[i].who = "instance"}
        IN  /\ view.mesh_culled =
                 Cardinality({i \in instances : ~InFrustum(view.meshes[1], log[i])})
            /\ view.mesh_drawn = view.gridSize * 5 - view.mesh_culled
            /\ view.frame.total = SumOfReturns(log, 1, Len(log))

\* C15: a frame emits triangleCountChanged(t) exactly when its triangle total t
\* differs from the total of the frame before it (0 before the first frame), and
\* what it emits is t; a frame with the total of the frame before emits nothing.
C15_EmitIffChanged ==
    view.frame.done =>
        /\ (view.frame.emitted # <<>>) <=> (view.frame.total # view.frame.before)
        /\ view.frame.emitted # <<>> => view.frame.emitted = <<view.frame.total>>

\* C16: in every frame no mesh draw is issued with program 0 bound: neither the
\* indexed draw of a mesh nor the lines of its bounding box and normals.
C16_NoDrawWithProgramZero ==
    view.frame.done =>
        \A i \in 1..Len(view.frame.log) :
            /\ view.frame.log[i].issued > 0 => view.frame.log[i].program # 0
            /\ view.frame.log[i].lines > 0 => view.frame.log[i].lineProgram # 0

\* C20: for every call of draw in a frame (culled, without a vertex array, or
\* drawn with any combination of the bounding-box and normal toggles) the
\* program bound when draw returns is the program that was bound when it was called.
C20_DrawPreservesProgram ==
    view.frame.done =>
        \A i \in 1..Len(view.frame.log) : view.frame.log[i].bound1 = view.frame.log[i].bound0

\* a frame in which a draw issued debug lines under the standard program and the
\* indexed draw under another one, and in which another draw was culled
C20_Witness ==
    /\ view.frame.done
    /\ \E i, j \in 1..Len(view.frame.log) :
         /\ view.frame.log[i].lines > 0
         /\ view.frame.log[i].issued = 1
         /\ view.frame.log[i].bound0 # view.frame.log[i].lineProgram
         /\ view.frame.log[i].bound1 = view.frame.log[i].bound0
         /\ view.frame.log[j].issued = 0
         /\ view.frame.log[j].ret = 0

(* ----------------------------------------------------------------------- *)
(* Properties of the shader slots, under SpecShader                        *)
(* ----------------------------------------------------------------------- *)

\* the view with the bookkeeping of the events left out
Members(vw) == [vw EXCEPT !.frame = NoFrame, !.asked = <<>>, !.slots = 0]

\* C17: changeShader(index) with index below the number of loaded programs makes
\* programIDs[index] the active program and changes nothing else; with any other
\* index it ends the process and leaves the active program as it was, so that
\* changeShader never makes a handle outside programIDs the active program.
C17_ChangeShader ==
    [][view'.asked # <<>> =>
         LET index == view'.asked[1]
         IN  IF index < Len(view.programIDs)
             THEN /\ ~crashed'
                  /\ view'.currentProgramID = view.programIDs[index + 1]
                  /\ Members(view') =
                       Members([view EXCEPT !.currentProgramID = view.programIDs[index + 1]])
                  /\ UNCHANGED <<mesh, gl, state, hist>>
             ELSE /\ crashed'
                  /\ Members(view') = Members(view)
                  /\ UNCHANGED <<mesh, gl, state, hist>>]_vars

\* changeShader(2) has made a program compiled after initializeGL the active one
C17_Witness ==
    /\ view.asked = <<2>>
    /\ ~crashed
    /\ Len(view.programIDs) = 3
    /\ view.currentProgramID = view.programIDs[3]
    /\ view.currentProgramID # LightProgram

(* ----------------------------------------------------------------------- *)
(* Properties of the colouring modes, under SpecColor                      *)
(* ----------------------------------------------------------------------- *)

\* C18: a draw in mode TEXTURE uses the texture when its handle is nonzero and
\* is otherwise resolved as COLOR_ARRAY; COLOR_ARRAY uses the colour buffer when
\* its handle is nonzero and is otherwise resolved as STATIC_COLOR; STATIC_COLOR
\* uses the static colour. The source used never ranks above the requested mode,
\* and a texture is bound only when it is the source.
C18_FallbackChain ==
    hist.drew /\ gl.drawElements > 0 /\ mesh.coloringType # "BUMP_MAPPING" =>
        LET asArray == IF mesh.VBOc # 0 THEN "colorArray" ELSE "static"
        IN  /\ mesh.coloringType = "TEXTURE" =>
                 gl.colorSource = IF mesh.textureID # 0 THEN "texture" ELSE asArray
            /\ mesh.coloringType = "COLOR_ARRAY" => gl.colorSource = asArray
            /\ mesh.coloringType = "STATIC_COLOR" => gl.colorSource = "static"
            /\ gl.boundTextures =
                 IF gl.colorSource = "texture" THEN {<<0, mesh.textureID>>} ELSE {}

\* a terrain in mode TEXTURE without a texture was drawn from its colour buffer
C18_Witness ==
    /\ hist.drew
    /\ gl.drawElements = 1
    /\ mesh.coloringType = "TEXTURE"
    /\ mesh.textureID = 0
    /\ mesh.VBOc # 0
    /\ gl.colorSource = "colorArray"

\* C19: when the texture the colouring mode needs is absent (the diffuse texture
\* in mode TEXTURE, any of the three textures in mode BUMP_MAPPING) the draw
\* uses the static colour and binds no texture of handle 0.
C19_AbsentTextureIsStatic ==
    hist.drew /\ gl.drawElements > 0 =>
        /\ mesh.coloringType = "TEXTURE" /\ mesh.textureID = 0 => gl.colorSource = "static"
        /\ mesh.coloringType = "BUMP_MAPPING"
             /\ 0 \in {mesh.textureID, mesh.normalMapID, mesh.displacementMapID}
           => gl.colorSource = "static"
        /\ \A b \in gl.boundTextures : b[2] # 0

\* the height field of generateTerrain(h, w) when every random number is 0
Field(w, h) == Heightmap(w, h, [i \in 1..((w + 1) * (h + 1) * 4) |-> R(0)], R(0))

\* C21: for every w >= 1 and h >= 1, when the diamond-square loop has ended every
\* point (x, z) with 0 <= x <= w and 0 <= z <= h has been assigned a height by
\* the corner initialisation, a diamond step or a square step.
C21_GridFullyAssigned ==
    hist.load = "terrain" =>
        Field(hist.ask[2], hist.ask[1]).assigned = (0..hist.ask[2]) \X (0..hist.ask[1])

\* the axis-aligned neighbours of (x, z) at distance halfStep that lie in the grid
AxisNeighbours(x, z, halfStep, w, h) ==
    {p \in {<<x - halfStep, z>>, <<x + halfStep, z>>, <<x, z - halfStep>>, <<x, z + halfStep>>} :
        HmInside(p[1], p[2], w, h)}

\* the sum of the heights g holds at the points pts
RECURSIVE SumAt(_, _)
SumAt(g, pts) ==
    IF pts = {} THEN R(0)
    ELSE \* any order: the sum of rationals does not depend on it
         LET p == CHOOSE q \in pts : TRUE
         IN  RAdd(ValueAt(g, p), SumAt(g, pts \ {p}))

\* C22: the height the square step writes to (x, z) is the average of exactly
\* those of (x-halfStep, z), (x+halfStep, z), (x, z-halfStep), (x, z+halfStep)
\* that lie inside the grid, plus the random offset, and the square step reads
\* no diagonal neighbour.
C22_SquareStepUsesAxisNeighbours ==
    hist.load = "terrain" =>
        \A s \in {Field(hist.ask[2], hist.ask[1]).squares[i] :
                    i \in 1..Len(Field(hist.ask[2], hist.ask[1]).squares)} :
          \A axis \in {AxisNeighbours(s.x, s.z, s.halfStep, hist.ask[2], hist.ask[1])} :
            /\ s.reads = axis
            /\ s.value = RAdd(RDiv(SumAt(s.before, axis), R(Cardinality(axis))), s.offset)

\* C24: for every w >= 1 and h >= 1 every height-map read and write of the
\* diamond and square steps uses indices inside the allocated grid, 0 <= x <= w
\* and 0 <= z <= h.
C24_TerrainAccessInsideGrid ==
    hist.load = "terrain" =>
        /\ ~Field(hist.ask[2], hist.ask[1]).oob
        /\ Field(hist.ask[2], hist.ask[1]).assigned \subseteq (0..hist.ask[2]) \X (0..hist.ask[1])
        /\ \A i \in 1..Len(Field(hist.ask[2], hist.ask[1]).squares) :
             Field(hist.ask[2], hist.ask[1]).squares[i].reads
                 \subseteq (0..hist.ask[2]) \X (0..hist.ask[1])

(* ----------------------------------------------------------------------- *)
(* Properties of the frame's instances, under SpecView                     *)
(* ----------------------------------------------------------------------- *)

\* the view matrix of the frame just painted: lookAt on the identity
ViewMatrix == getCurrentModelViewMatrix(lookAt(loadIdentityModelViewMatrix(ViewState), view.cameraPos))

\* C23: in each frame instance i of the primary mesh is drawn under
\* view x translate(p_i) for its own stored position p_i, nothing of the
\* transform of one instance carrying over into the next, and every secondary
\* mesh is drawn once under the un-translated view matrix.
C23_InstanceTransforms ==
    view.frame.done =>
        \A log \in {view.frame.log} :
          /\ \A j \in 1..Len(log) :
               /\ log[j].who = "instance" =>
                    log[j].modelView =
                      translate(ViewMatrix,
                                IntVec(view.objectPositions[
                                  Cardinality({i \in 1..j : log[i].who = "instance"})]))
               /\ log[j].who = "mesh" => log[j].modelView = ViewMatrix
          /\ Cardinality({j \in 1..Len(log) : log[j].who = "mesh"}) = Len(view.meshes) - 1

(* ----------------------------------------------------------------------- *)
(* Properties of the grid size, under SpecGrid                             *)
(* ----------------------------------------------------------------------- *)

\* C25: for every grid size set through setGridSize (any int) and any number of
\* frames after it, the instance loop of paintGL reads objectPositions only at
\* indices smaller than the number of generated positions, and the count of
\* drawn instances a frame reports is never negative.
C25_InstancesWithinPositions ==
    /\ ~crashed
    /\ view.frame.done => ~view.frame.past /\ view.mesh_drawn >= 0

\* C26: after any interleaving of frames and setGridSize calls, once a frame
\* has completed, the value of the most recently emitted triangleCountChanged
\* is that frame's total of drawn triangles.
C26_NotifiedCountIsCurrent ==
    view.frame.done /\ view.notified # <<>> => view.notified = <<view.frame.total>>

\* C27: recreateTerrain replaces only the geometry and the GPU resources of the
\* terrain mesh: its coloring mode, static color and debug toggles are after
\* the call what they were before it, and no other mesh is changed.
C27_RecreateTerrainKeepsModes ==
    [][\A in \in TerrainInputs :
         view' = Slot(recreateTerrain(view, in)) =>
           /\ view'.meshes[2].coloringType = view.meshes[2].coloringType
           /\ view'.meshes[2].staticColor = view.meshes[2].staticColor
           /\ view'.meshes[2].withBB = view.meshes[2].withBB
           /\ view'.meshes[2].withNormals = view.meshes[2].withNormals
           /\ view'.meshes[1] = view.meshes[1]
           /\ view'.sphereMesh = view.sphereMesh
           /\ view'.bumpSphereMesh = view.bumpSphereMesh]_vars

\* C28: every shaderCompiled(i), from initializeGL or compileShader, carries an
\* index i smaller than the number of entries of programIDs, programIDs never
\* holds the handle 0, and changeShader(i) with a notified i never takes the
\* fatal out-of-range path, whichever shader compilations failed.
C28_NotifiedIndexIsValid ==
    /\ \A i \in view.compiled : i < Len(view.programIDs)
    /\ \A k \in 1..Len(view.programIDs) : view.programIDs[k] # 0
    /\ view.asked # <<>> /\ view.asked[1] \in view.compiled => ~crashed

(* ----------------------------------------------------------------------- *)
(* Properties of the three-argument loadOFF, under Spec                    *)
(* ----------------------------------------------------------------------- *)

\* the longest side of the bounding box of m
LongestSide(m) ==
    RMax(RMax(RSub(m.boundingBoxMax[1], m.boundingBoxMin[1]),
              RSub(m.boundingBoxMax[2], m.boundingBoxMin[2])),
         RSub(m.boundingBoxMax[3], m.boundingBoxMin[3]))

\* C29: after a successful loadOFF(filename, BBmid, BBlength) the midpoint of
\* the mesh's bounding box is BBmid and the longest side of the box is
\* BBlength, for every requested midpoint and every positive length.
C29_ScaledLoadFitsBox ==
    [][\A file \in Files, BBmid \in Centers, BBlength \in BoxLengths, uploadOk \in BOOLEAN :
         (/\ LoadReads(file)
          /\ ~crashed'
          /\ mesh' = loadOFFScaled(World, file, BBmid, BBlength, uploadOk).m)
         => /\ mesh'.boundingBoxMid = BBmid
            /\ HalfSum(mesh'.boundingBoxMin, mesh'.boundingBoxMax) = BBmid
            /\ LongestSide(mesh') = BBlength]_vars

(* ----------------------------------------------------------------------- *)
(* Properties of the face indices of a file, under SpecFiles               *)
(* ----------------------------------------------------------------------- *)

\* C30: for every file loadOFF accepts, also one whose faces name vertex indices
\* at or beyond the vertex count, normal synthesis and draw index vertices and
\* normals only below the number of vertices: a face index out of range leaves
\* an empty mesh instead of being used.
C30_FaceIndicesChecked ==
    /\ ~crashed
    /\ \A k \in 1..Len(mesh.triangles), j \in 1..3 :
         mesh.triangles[k][j] < Len(mesh.vertices)

====
